---- MODULE Spec2Model ----
(***************************************************************************)
(* State-machine model of the defensive extraction pipeline of             *)
(* AddSiteLayers/ImportStdSiteLayers.py (run_import_std_site_layers).      *)
(*                                                                         *)
(* One action per external call of the per-record loop: every arcpy tool   *)
(* and every urlopen is a step whose outcome (result or exception) is      *)
(* chosen by the environment; the Python between two calls is folded into  *)
(* the step that precedes it.                                              *)
(*                                                                         *)
(* The source file does not compile as written: the "try:" on line 1044    *)
(* has no handler of its own.  The model reads lines 1007-1113 as the      *)
(* indentation shows them: one try block (1007-1095) whose handler is the  *)
(* "except" on line 1096.                                                  *)
(***************************************************************************)
EXTENDS Integers, Sequences, FiniteSets, TLC

\* ------------------------------------------------------------------ bounds
MaxRecs == 2
MaxPctRecs == 2
MaxFeatures == 2

\* ------------------------------------------------------- program constants
max_attempts == 3
BackoffSeconds == 3

\* --------------------------------------------------------------- universes
\* A row of the Standard Connection Reference Table, as the loop reads it:
\* url (is the URL column filled), SiteBuffer, BufferAction, and the final
\* path os.path.join(default_gdb, FeatureDatasetName, safe_short).  The short
\* name of the record at position i is i (short names are distinct).
\* BufferAction is a string of characters.
IntersectAction == <<"I", "N", "T", "E", "R", "S", "E", "C", "T">>
ClipAction == <<"C", "L", "I", "P">>

RefRecords ==
    { [url |-> TRUE,  site_buffer |-> "0",  buffer_action |-> IntersectAction, out_fc |-> 1],
      [url |-> TRUE,  site_buffer |-> "50", buffer_action |-> ClipAction,      out_fc |-> 2],
      [url |-> FALSE, site_buffer |-> "0",  buffer_action |-> IntersectAction, out_fc |-> 2] }

\* BufferAction as the reference table may spell it; <<>> is a missing or
\* empty value.
RawActions ==
    { ClipAction, <<"c", "l", "i", "p">>, <<" ", "C", "l", "i", "p", " ">>,
      <<"C", "L", "I", "P", "S">>, IntersectAction, <<>> }

RefTables == [1..MaxRecs -> RefRecords]

\* The final paths the reference records resolve to.
Paths == {r.out_fc : r \in RefRecords}

\* Content of a feature class in the default geodatabase.
Absent == <<"absent", 0, 0>>
OldContent == <<"old", 0, 0>>
Partial(run, i) == <<"partial", run, i>>
Extract(run, i) == <<"extract", run, i>>

\* What a returnIdsOnly response without "error" can carry: objectIds as
\* str(int(i)) prints them, and objectIdFieldName ("" when it is missing).
Responses ==
    { [objectIdFieldName |-> "", objectIds |-> <<>>],
      [objectIdFieldName |-> "", objectIds |-> <<"101", "205">>],
      [objectIdFieldName |-> "FID", objectIds |-> <<"999">>] }

\* Object IDs of the features the service layer holds when it is opened
\* ("999" was deleted after the ID query).
ServiceOids == {"101", "205", "300"}

\* What the SiteBuffer column can hold: numbers, nothing, text.
RawBuffers == {"0", "-5", "", "None", "abc", "50"}

\* The PCT rows of the reference table: SortOrder, ShortName (the name of the
\* final output), whether URL is filled, SiteBuffer, BufferAction.
PctRecords ==
    { [SortOrder |-> 1, ShortName |-> "a", URL |-> TRUE, SiteBuffer |-> "0",
       BufferAction |-> "INTERSECT"],
      [SortOrder |-> 2, ShortName |-> "b", URL |-> TRUE, SiteBuffer |-> "50",
       BufferAction |-> "INTERSECT"],
      [SortOrder |-> 3, ShortName |-> "a", URL |-> TRUE, SiteBuffer |-> "0",
       BufferAction |-> "CLIP"],
      [SortOrder |-> 4, ShortName |-> "b", URL |-> FALSE, SiteBuffer |-> "0",
       BufferAction |-> "INTERSECT"] }
PctPaths == {"a", "b"}
\* orderByFields = "SortOrder ASC"
PctTables ==
    {t \in UNION {[1..n -> PctRecords] : n \in 0..MaxPctRecs} :
        \A i, j \in 1..Len(t) : i < j => t[i].SortOrder < t[j].SortOrder}
\* The object IDs the cursor of lines 224-226 may have read.
OidLists == {<<>>, <<1>>, <<1, 2>>}

EmptySummary ==
    [success |-> FALSE, extracted |-> <<>>, replaced |-> <<>>, skipped |-> <<>>,
     failed |-> <<>>]

VARIABLES
    pc,                 \* position in run_import_std_site_layers
    ref_table,          \* rows the reference table service returns
    gdb,                \* final path -> content (default geodatabase)
    fd_exists,          \* the feature dataset exists in the default geodatabase
    tmp_fcs,            \* staging outputs (tmp_extract_*) present: <<run, idx>>
    overwrite_flag, force_requery, token,
    features, idx,
    extracted_new, replaced, skipped, failed, fallback_qurls_for_failed,
    processed_outputs,
    made_layer, selection_succeeded, count, stamped,
    attempt, tried_without_token, qparams_token, object_ids, last_err, qurl_used,
    qdata,              \* objectIdFieldName of the last response parsed
    where_ids,          \* where clause of the filtered layer, as tokens
    prior,              \* content of out_fc when the current record was reached
    ops,                \* external calls made for the current record
    requests,           \* urlopen calls of the fallback ID query, current record
    slept,              \* seconds spent in time.sleep, current record
    raised,             \* external calls of the current record that raised
    calls,              \* what each call of the function got and returned
    attempts,           \* where clauses the study-area lookup has still to try
    sent,               \* requests of the study-area lookup: token, response
    ref_data            \* response of the reference-table query

\* ----- run_create_site (CreateSiteByProperty.py)
VARIABLES
    step,               \* position in run_create_site
    store,              \* records of the Project_Study_Area feature service
    store0,             \* the store when the current run started
    project_number,     \* argument of the current run
    property_count, archived_count, appended_success,
    result,             \* what the last run returned
    log,                \* external operations the current run has attempted
    runs,               \* runs of run_create_site that have returned
    temps,              \* staging artifacts of the current run that exist
    failed_temp_deletes \* artifacts whose Delete raised in the current run

\* ----- run_pct_analysis (PCT_Analysis.py)
VARIABLES
    pct_pc,            \* where run_pct_analysis stands
    pct_table,         \* the PCT rows of the reference table, by SortOrder
    pct_gdb,           \* final output (by ShortName) -> its feature class
    default_gdb,       \* whether an output geodatabase was resolved (line 108)
    pct_overwrite,     \* overwrite_flag of run_pct_analysis
    pct_requery,       \* force_requery of run_pct_analysis
    records,           \* what query_pct_reference_records returned
    pct_idx,           \* idx of the loop of line 147
    results,           \* the list the function returns
    buffer_fc,         \* "buffer" or "study_area"
    pct_made_layer,    \* made_layer of run_pct_analysis
    selected_oids, piece_count, created_any,
    pieces,            \* rec["pieces"], the status of each piece
    pct_ops,           \* tools invoked for the record: <<tool, overlap type>>
    pct_prior          \* the final output as the record found it (line 175)

pct_vars ==
    <<pct_pc, pct_table, pct_gdb, default_gdb, pct_overwrite, pct_requery, records,
      pct_idx, results, buffer_fc, pct_made_layer, selected_oids, piece_count,
      created_any, pieces, pct_ops, pct_prior>>

\* ----- two runs of run_import_std_site_layers over two orderings
VARIABLES
    order_pc,          \* where the pair of runs stands
    order_args,        \* the two orderings, the flags, what each service returns
    order_idx,         \* idx of the loop of line 697, the same in both runs
    first_run,         \* geodatabase and buckets of the run over the first ordering
    second_run         \* geodatabase and buckets of the run over the second ordering

order_vars == <<order_pc, order_args, order_idx, first_run, second_run>>

\* ----- create_pct_report (pct_report_Version3.py)
VARIABLES
    report_pc,         \* where create_pct_report stands
    pct_fc,            \* the rows of the PCT feature class
    pct_fields,        \* its field names
    site_area_m2,
    summary,           \* the dict of lines 80-87, as a set of rows
    report_table,      \* the table default_gdb/PCT_Report
    report_ret         \* what the function returned

report_vars ==
    <<report_pc, pct_fc, pct_fields, site_area_m2, summary, report_table, report_ret>>

\* ----- two interleaved runs of run_create_site on one store
VARIABLES
    race_step,         \* where each of the two runs stands
    race_store,        \* records of the Project_Study_Area feature service
    race_pn,           \* project_number of each run
    race_sel,          \* the records each run's SelectLayerByAttribute selected
    race_log           \* the calls on the store, in the order they were served

race_vars == <<race_step, race_store, race_pn, race_sel, race_log>>

\* ----- the map of run_import_std_site_layers
VARIABLES
    map_pc,                   \* where the map handling stands
    site_map,                 \* the layers of 'Site Details Map'
    preexisting_layer_names,  \* lines 615-620 and 690-694
    final_layer,              \* the layer added for the output at hand
    display_name,             \* its short name
    map_added                 \* outputs added to the map so far

map_vars == <<map_pc, site_map, preexisting_layer_names, final_layer, display_name,
              map_added>>

\* ----- the SiteLotsReport table of run_import_std_site_layers
VARIABLES
    lots_pc,           \* where the run stands: the loop, the report, returned
    lots_outputs,      \* short names of processed_outputs, in processing order
    lots_seen,         \* reference records the loop has been through
    lots_table,        \* default_gdb/SiteLotsReport
    lots_table0        \* the table when the run started

lots_vars == <<lots_pc, lots_outputs, lots_seen, lots_table, lots_table0>>

\* ----- the end-of-run cleanup of run_import_std_site_layers
VARIABLES
    clean_pc,          \* where the run stands
    root,              \* feature classes and tables at the root of default_gdb
    root0,             \* the same when the run started
    study_area,     \* the study area the run was called with
    clean_made               \* items of root this run created

clean_vars == <<clean_pc, root, root0, study_area, clean_made>>

\* ----- run_pct_analysis called a second time
VARIABLES
    first_call         \* what the first call returned and left, <<>> before

\* The variables of the behaviours studied apart from the single tools.
more_vars == <<race_vars, map_vars, lots_vars, clean_vars, first_call>>

site_vars ==
    <<step, store, store0, project_number, property_count, archived_count,
      appended_success, result, log, runs, temps, failed_temp_deletes>>

import_vars ==
    <<pc, ref_table, gdb, fd_exists, tmp_fcs, overwrite_flag, force_requery, token,
      features, idx, extracted_new, replaced, skipped, failed,
      fallback_qurls_for_failed, processed_outputs, made_layer,
      selection_succeeded, count, stamped, attempt, tried_without_token,
      qparams_token, object_ids, last_err, qurl_used, prior, ops, requests, slept,
      raised, calls, attempts, sent, ref_data, qdata, where_ids>>

vars == <<import_vars, site_vars, pct_vars, order_vars, report_vars, more_vars>>

\* What an action of run_import_std_site_layers never writes: the reference
\* table and the state of the other tools.
env == <<ref_table, site_vars, pct_vars, order_vars, report_vars, more_vars>>
lookup == <<attempts, sent, ref_data>>
args == <<overwrite_flag, force_requery, token, features, lookup>>
buckets == <<extracted_new, replaced, skipped, failed, fallback_qurls_for_failed,
             processed_outputs>>
fallback == <<attempt, tried_without_token, qparams_token, object_ids, qdata, last_err,
              qurl_used, requests, slept>>
selection == <<made_layer, selection_succeeded, count, stamped, where_ids>>

run == Len(calls) + 1
rec == features[idx]
short_name == idx
out_fc == rec.out_fc
tmp_out == <<run, idx>>

InList(s, x) == \E k \in 1..Len(s) : s[k] = x

\* EndDate IS NULL; an archived record carries the number of the run that
\* archived it (datetime.now()).
NULL == 0

\* Line 346: result as initialised.
DefaultResult ==
    [success |-> FALSE, study_area |-> "None", appended |-> FALSE,
     archived_count |-> 0]

\* run_create_site not started, the store as given.
SiteIdle(st) ==
    /\ step = "idle" /\ store = st /\ store0 = st
    /\ project_number = "" /\ property_count = 0 /\ archived_count = 0
    /\ appended_success = FALSE /\ result = DefaultResult
    /\ log = <<>> /\ runs = 0
    /\ temps = {} /\ failed_temp_deletes = {}

\* A feature class of the PCT outputs: absent, or present with its rows (the
\* object ID each row was extracted from; 0 for a row of an earlier extraction).
NoFc == [exists |-> FALSE, rows |-> <<>>]
OldFc == [exists |-> TRUE, rows |-> <<0>>]

\* run_pct_analysis not started, over the reference rows t and the outputs g.
PctIdle(t, g) ==
    /\ pct_pc = "idle" /\ pct_table = t /\ pct_gdb = g
    /\ default_gdb = FALSE /\ pct_overwrite = FALSE /\ pct_requery = FALSE
    /\ records = <<>> /\ pct_idx = 0 /\ results = <<>>
    /\ buffer_fc = "study_area" /\ pct_made_layer = FALSE
    /\ selected_oids = <<>> /\ piece_count = 0 /\ created_any = FALSE
    /\ pieces = <<>> /\ pct_ops = {} /\ pct_prior = NoFc

\* The report table: absent, or present with its rows.
NoTable == [exists |-> FALSE, rows |-> {}]

\* create_pct_report not called.
ReportIdle ==
    /\ report_pc = "idle" /\ pct_fc = <<>> /\ pct_fields = <<>>
    /\ site_area_m2 = 0 /\ summary = {} /\ report_table = NoTable
    /\ report_ret = "None"

\* No pair of runs started.
NoArgs == [first |-> <<>>, second |-> <<>>, overwrite_flag |-> FALSE,
           force_requery |-> FALSE, found |-> {}, unreachable |-> {}]
NoRun == [gdb |-> {}, extracted_new |-> {}, replaced |-> {}, skipped |-> {},
          failed |-> {}]
OrderIdle ==
    /\ order_pc = "idle" /\ order_args = NoArgs /\ order_idx = 0
    /\ first_run = NoRun /\ second_run = NoRun

\* No pair of interleaved runs: nothing started, the store as given.
RaceIdle(st) ==
    /\ race_step = [p \in 1..2 |-> "idle"] /\ race_store = st
    /\ race_pn = [p \in 1..2 |-> ""] /\ race_sel = [p \in 1..2 |-> {}]
    /\ race_log = <<>>

\* A layer of the map: longName is the path of group layers and the name.
NoLayer == [id |-> 0, name |-> "", longName |-> <<"", "">>, visible |-> FALSE]

\* The map not looked at yet.
MapIdle(m) ==
    /\ map_pc = "idle" /\ site_map = m /\ preexisting_layer_names = {}
    /\ final_layer = NoLayer /\ display_name = "" /\ map_added = 0

\* SiteLotsReport: absent, or built from a layer (by is its short name).
NoLotsTable == [exists |-> FALSE, by |-> <<>>, complete |-> FALSE]
OldLotsTable == [exists |-> TRUE, by |-> <<"o", "l", "d">>, complete |-> TRUE]

LotsIdle(t) ==
    /\ lots_pc = "idle" /\ lots_outputs = <<>> /\ lots_seen = 0
    /\ lots_table = t /\ lots_table0 = t

\* study_area_fc=None: the study area is fetched from the service.
NoStudyArea == <<"none", <<>>>>

CleanIdle(r, sa) ==
    /\ clean_pc = "idle" /\ root = r /\ root0 = r
    /\ study_area = sa /\ clean_made = {}

MoreIdle ==
    /\ RaceIdle(<<>>) /\ MapIdle({}) /\ LotsIdle(NoLotsTable)
    /\ CleanIdle({}, NoStudyArea)
    /\ first_call = <<>>

\* The locals of run_import_std_site_layers before its first call.
ImportIdle ==
    /\ pc = "idle"
    /\ tmp_fcs = {}
    /\ overwrite_flag = FALSE /\ force_requery = FALSE /\ token = FALSE
    /\ features = <<>> /\ idx = 0
    /\ extracted_new = <<>> /\ replaced = <<>> /\ skipped = <<>> /\ failed = <<>>
    /\ fallback_qurls_for_failed = <<>> /\ processed_outputs = <<>>
    /\ made_layer = FALSE /\ selection_succeeded = FALSE /\ count = 0
    /\ stamped = <<>>
    /\ attempt = 0 /\ tried_without_token = FALSE /\ qparams_token = FALSE
    /\ object_ids = <<>> /\ last_err = -1 /\ qurl_used = "None"
    /\ qdata = "" /\ where_ids = <<>>
    /\ prior = Absent /\ ops = {} /\ requests = 0 /\ slept = 0
    /\ raised = {}
    /\ calls = <<>>
    /\ attempts = <<>> /\ sent = <<>> /\ ref_data = "none"

Init ==
    /\ ref_table \in RefTables
    /\ gdb \in [Paths -> {Absent, OldContent}]
    /\ fd_exists \in BOOLEAN
    /\ (\E p \in Paths : gdb[p] # Absent) => fd_exists
    /\ ImportIdle /\ MoreIdle
    /\ SiteIdle(<<>>)
    /\ PctIdle(<<>>, [p \in PctPaths |-> NoFc])
    /\ OrderIdle /\ ReportIdle


\* ----------------------------------------------------------------- helpers
\* "continue": the loop moves to the next reference record.
Continue == idx' = idx + 1 /\ pc' = "rec"

FileSkipped ==
    /\ skipped' = Append(skipped, short_name)
    /\ UNCHANGED <<extracted_new, replaced, failed, fallback_qurls_for_failed,
                   processed_outputs>>

\* failed.append(short_name), with the diagnostic entries d the branch appends.
FileFailed(d) ==
    /\ failed' = Append(failed, short_name)
    /\ fallback_qurls_for_failed' = fallback_qurls_for_failed \o d
    /\ UNCHANGED <<extracted_new, replaced, skipped, processed_outputs>>

Diag(q, e) == <<[shortname |-> short_name, qurl |-> q, error |-> e]>>

\* DeleteTmp that never removes the staging output and reports nothing.
DeleteTmp_Keeps(present, delok, r) ==
    /\ tmp_fcs' = IF present THEN tmp_fcs \cup {tmp_out} ELSE tmp_fcs
    /\ raised' = raised \cup r

\* try: Delete(tmp_out) / except: pass.  The delete can raise; the staging
\* output then stays in the geodatabase.
\* r: the call whose failure led here.
DeleteTmp(present, delok, r) ==
    /\ tmp_fcs' = IF present /\ ~delok THEN tmp_fcs \cup {tmp_out}
                  ELSE tmp_fcs \ {tmp_out}
    /\ raised' = raised \cup r \cup (IF present /\ ~delok THEN {"DeleteTmp"} ELSE {})

Return(s) ==
    /\ calls' = Append(calls, [overwrite_flag |-> overwrite_flag,
                               force_requery |-> force_requery, summary |-> s])
    /\ pc' = "returned"

\* An exception that no handler of the loop body catches reaches the handler
\* of the whole function, which returns the summary as initialised.
Abort(call) ==
    /\ raised' = raised \cup {call}
    /\ Return(EmptySummary)
    /\ UNCHANGED <<idx, buckets>>

\* ParsedDistance with the sign of the number dropped.
ParsedDistance_Abs(v) ==
    IF v \in {"", "None", "0"} THEN 0
    ELSE IF v = "abc" THEN 0
    ELSE IF v = "-5" THEN 5 ELSE 50

\* Lines 706 and 759-763 (PCT_Analysis.py 152 and 182-185): the SiteBuffer
\* column as written in the table ("None" for a missing or null value); a
\* falsy value is replaced by 0, float() is applied, and a value float()
\* rejects gives 0.0.
ParsedDistance(v) ==
    IF v \in {"", "None", "0"} THEN 0
    ELSE IF v = "abc" THEN 0
    ELSE IF v = "-5" THEN 0 - 5 ELSE 50

distance_m == ParsedDistance(rec.site_buffer)

\* ----------------------------------------------------------------- actions
\* What _get_study_area_by_project_number looks at in project_number:
\* str.isdigit() and float(...).is_integer().
ProjectNumbers ==
    { [isdigit |-> TRUE, is_integer |-> TRUE],       \* "1234"
      [isdigit |-> FALSE, is_integer |-> TRUE],      \* "1234.0"
      [isdigit |-> FALSE, is_integer |-> FALSE] }    \* "P-1234"

\* Lines 395-404: the where clauses tried in turn.
WhereClauses(pn) ==
    (IF pn.isdigit THEN <<"number">> ELSE <<>>)
    \o (IF pn.is_integer THEN <<"number">> ELSE <<>>)
    \o <<"text">>

\* Lines 524-552: the arguments, the summary, the token; the study area is
\* looked up unless the caller supplied study_area_fc.
Enter(ow, fr, tok, pn, study_area_fc) ==
    /\ overwrite_flag' = ow /\ force_requery' = fr /\ token' = tok
    /\ UNCHANGED <<env, gdb, fd_exists, tmp_fcs, selection, fallback, prior, calls>>
    /\ extracted_new' = <<>> /\ replaced' = <<>> /\ skipped' = <<>>
    /\ failed' = <<>> /\ fallback_qurls_for_failed' = <<>>
    /\ processed_outputs' = <<>>
    /\ features' = <<>> /\ idx' = 0
    /\ ops' = {} /\ raised' = {}
    /\ sent' = <<>> /\ ref_data' = "none"
    /\ IF study_area_fc
       THEN attempts' = <<>> /\ pc' = "reference"
       ELSE attempts' = WhereClauses(pn) /\ pc' = "study_area"

StartRun ==
    /\ pc = "idle"
    /\ \E ow \in BOOLEAN, fr \in BOOLEAN, tok \in BOOLEAN,
          pn \in ProjectNumbers, fc \in BOOLEAN :
          Enter(ow, fr, tok, pn, fc)

\* Lines 388-447 and 553-557: one query of the study-area lookup.  Every
\* request carries the token when there is one; a response without features
\* (none found, an error envelope) or a failing request moves on to the next
\* where clause; with none left the lookup returns None and the run returns
\* the summary as initialised.
StudyAreaQuery ==
    /\ pc = "study_area" /\ attempts # <<>>
    /\ UNCHANGED <<env, gdb, fd_exists, tmp_fcs, selection, fallback, prior, ops,
                   overwrite_flag, force_requery, token, features, ref_data>>
    /\ \E r \in {"features", "empty", "error498", "raised"} :
          IF r = "features"
          THEN /\ attempts' = <<>>
               /\ \/ /\ sent' = <<>>
                     /\ pc' = "reference"
                     /\ UNCHANGED <<idx, buckets, raised, calls>>
                  \/ /\ sent' = Append(sent, [token |-> token, resp |-> r])
                     /\ Abort("StudyAreaCopy")
          ELSE /\ sent' = Append(sent, [token |-> token, resp |-> r])
               /\ attempts' = Tail(attempts)
               /\ UNCHANGED <<idx, buckets, raised>>
               /\ IF Tail(attempts) = <<>>
                  THEN Return(EmptySummary)
                  ELSE UNCHANGED <<pc, calls>>

\* Lines 559-588: the area of the study area, then the reference-table query,
\* one request carrying the token when there is one.  An error envelope has no
\* "features" and reads as an empty table.
ReferenceQuery ==
    /\ pc = "reference"
    /\ UNCHANGED <<env, gdb, fd_exists, tmp_fcs, selection, fallback, prior, ops,
                   overwrite_flag, force_requery, token, attempts, sent>>
    /\ \/ /\ UNCHANGED <<features, ref_data>>
          /\ Abort("SearchCursor")
       \/ /\ ref_data' = "raised"
          /\ UNCHANGED features
          /\ Abort("ReferenceQuery")
       \/ \E r \in {"features", "empty", "error498"} :
             /\ ref_data' = r
             /\ features' = IF r = "features" THEN ref_table ELSE <<>>
             /\ idx' = 1 /\ pc' = "rec"
             /\ UNCHANGED <<buckets, raised, calls>>

\* BeginRecord with the existence check of lines 751-755 left out.
BeginRecord_NoExistenceCheck ==
    /\ pc = "rec" /\ idx <= Len(features)
    /\ prior' = gdb[out_fc]
    /\ ops' = {} /\ requests' = 0 /\ slept' = 0 /\ raised' = {}
    /\ made_layer' = FALSE /\ selection_succeeded' = FALSE /\ count' = 0
    /\ stamped' = <<>>
    /\ attempt' = 0 /\ tried_without_token' = FALSE /\ qparams_token' = FALSE
    /\ object_ids' = <<>> /\ last_err' = -1 /\ qurl_used' = "None"
    /\ qdata' = "" /\ where_ids' = <<>>
    /\ UNCHANGED <<env, args, gdb, fd_exists, tmp_fcs, calls>>
    /\ IF ~rec.url
       THEN FileSkipped /\ Continue
       ELSE /\ pc' = IF distance_m > 0 THEN "buffer" ELSE "open"
            /\ UNCHANGED <<idx, buckets>>

\* Lines 697-774: read the row, the URL check, the existence check.
BeginRecord ==
    /\ pc = "rec" /\ idx <= Len(features)
    /\ prior' = gdb[out_fc]
    /\ ops' = {} /\ requests' = 0 /\ slept' = 0 /\ raised' = {}
    /\ made_layer' = FALSE /\ selection_succeeded' = FALSE /\ count' = 0
    /\ stamped' = <<>>
    /\ attempt' = 0 /\ tried_without_token' = FALSE /\ qparams_token' = FALSE
    /\ object_ids' = <<>> /\ last_err' = -1 /\ qurl_used' = "None"
    /\ qdata' = "" /\ where_ids' = <<>>
    /\ UNCHANGED <<env, args, gdb, fd_exists, tmp_fcs, calls>>
    /\ IF ~rec.url
       THEN FileSkipped /\ Continue
       ELSE IF gdb[out_fc] # Absent /\ ~overwrite_flag /\ ~force_requery
       THEN FileSkipped /\ Continue
       ELSE /\ pc' = IF distance_m > 0 THEN "buffer" ELSE "open"
            /\ UNCHANGED <<idx, buckets>>

\* Line 772: arcpy.analysis.Buffer, outside every handler of the loop body.
Buffer ==
    /\ pc = "buffer"
    /\ ops' = ops \cup {"Buffer"}
    /\ UNCHANGED <<env, args, gdb, fd_exists, tmp_fcs, selection, fallback, prior>>
    /\ \E ok \in BOOLEAN :
          IF ok THEN pc' = "open" /\ UNCHANGED <<idx, buckets, calls, raised>>
          ELSE Abort("Buffer")

\* Lines 777-783: MakeFeatureLayer on the service URL.
MakeFeatureLayer ==
    /\ pc = "open"
    /\ ops' = ops \cup {"MakeFeatureLayer"}
    /\ \E ok \in BOOLEAN :
          /\ made_layer' = ok
          /\ raised' = IF ok THEN raised ELSE raised \cup {"MakeFeatureLayer"}
          /\ pc' = IF ok THEN "select" ELSE "fallback"
    /\ UNCHANGED <<env, args, gdb, fd_exists, tmp_fcs, idx, buckets, fallback, prior,
                   selection_succeeded, count, stamped, where_ids, calls>>

\* SelectLayerByLocation whose failure files the record as failed at once.
SelectLayerByLocation_NoFallback ==
    /\ pc = "select"
    /\ ops' = ops \cup {"SelectLayerByLocation"}
    /\ UNCHANGED <<env, args, gdb, fd_exists, tmp_fcs, fallback, prior,
                   made_layer, count, stamped, where_ids, calls>>
    /\ \E ok \in BOOLEAN :
          /\ selection_succeeded' = ok
          /\ IF ok
             THEN pc' = "count" /\ UNCHANGED <<idx, buckets, raised>>
             ELSE /\ raised' = raised \cup {"SelectLayerByLocation"}
                  /\ FileFailed(<<>>)
                  /\ Continue

\* Lines 788-795: SelectLayerByLocation(temp_layer_name, "INTERSECT", buffer_fc).
SelectLayerByLocation ==
    /\ pc = "select"
    /\ ops' = ops \cup {"SelectLayerByLocation"}
    /\ \E ok \in BOOLEAN :
          /\ selection_succeeded' = ok
          /\ raised' = IF ok THEN raised ELSE raised \cup {"SelectLayerByLocation"}
          /\ pc' = IF ok THEN "count" ELSE "fallback"
    /\ UNCHANGED <<env, args, gdb, fd_exists, tmp_fcs, idx, buckets, fallback, prior,
                   made_layer, count, stamped, where_ids, calls>>

\* Lines 797-853: metadata probe, geometry JSON, query parameters.  A raise
\* here (no geometry JSON, a failing Delete of the temporary layer) is caught
\* on line 915.
FallbackPrepare ==
    /\ pc = "fallback"
    /\ UNCHANGED <<env, args, gdb, fd_exists, tmp_fcs, selection, prior, ops,
                   calls, requests, slept, qurl_used>>
    /\ object_ids' = <<>> /\ qdata' = "" /\ last_err' = -1 /\ attempt' = 0
    /\ tried_without_token' = FALSE
    /\ \E ok \in BOOLEAN :
          IF ok
          THEN /\ qparams_token' = token
               /\ pc' = "rest"
               /\ UNCHANGED <<idx, buckets, raised>>
          ELSE /\ qparams_token' = FALSE
               /\ raised' = raised \cup {"FallbackPrepare"}
               /\ FileFailed(Diag(qurl_used, 2))
               /\ Continue

\* One more iteration: "continue" with the loop condition still true.
Again(att, tried, tok, err, sl) ==
    /\ attempt' = att /\ tried_without_token' = tried /\ qparams_token' = tok
    /\ last_err' = err /\ slept' = sl
    /\ requests' = requests + 1
    /\ pc' = "rest"

\* The loop is left: "break", or the loop condition false after attempt += 1.
Leave(att, err, sl) ==
    /\ attempt' = att /\ last_err' = err /\ slept' = sl
    /\ requests' = requests + 1
    /\ UNCHANGED <<tried_without_token, qparams_token>>
    /\ pc' = "after"

\* Counted with "attempt += 1" left out.
Counted_NoIncrement(err) ==
    IF attempt + 1 < max_attempts
    THEN Again(attempt, tried_without_token, qparams_token, err,
               slept + BackoffSeconds)
    ELSE Leave(attempt + 1, err, slept + BackoffSeconds)

\* attempt += 1; time.sleep(3); then the loop condition.
Counted(err) ==
    IF attempt + 1 < max_attempts
    THEN Again(attempt + 1, tried_without_token, qparams_token, err,
               slept + BackoffSeconds)
    ELSE Leave(attempt + 1, err, slept + BackoffSeconds)

\* RestQuery without lines 867-872: a 498 is counted like any other error.
RestQuery_Counts498 ==
    /\ pc = "rest" /\ attempt < max_attempts
    /\ UNCHANGED <<env, args, gdb, fd_exists, tmp_fcs, selection, prior,
                   raised, calls, idx, buckets>>
    /\ ops' = ops \cup {"urlopen"}
    /\ qurl_used' = IF qparams_token THEN "token" ELSE "notoken"
    /\ \/ \E r \in Responses :
             /\ object_ids' = r.objectIds /\ qdata' = r.objectIdFieldName
             /\ Leave(attempt, last_err, slept)
       \/ \E code \in {498, 500} :
             /\ UNCHANGED object_ids /\ qdata' = ""
             /\ Counted(code)
       \/ /\ UNCHANGED <<object_ids, qdata>>
          /\ Counted(0)

\* Lines 855-884: one iteration of the retry loop, one urlopen.
RestQuery ==
    /\ pc = "rest" /\ attempt < max_attempts
    /\ UNCHANGED <<env, args, gdb, fd_exists, tmp_fcs, selection, prior,
                   raised, calls, idx, buckets>>
    /\ ops' = ops \cup {"urlopen"}
    /\ qurl_used' = IF qparams_token THEN "token" ELSE "notoken"
    /\ \/ \E r \in Responses :            \* a response without "error": break
             /\ object_ids' = r.objectIds /\ qdata' = r.objectIdFieldName
             /\ Leave(attempt, last_err, slept)
       \/ \E code \in {498, 500} :          \* an error envelope
             /\ UNCHANGED object_ids /\ qdata' = ""
             /\ IF code = 498 /\ ~tried_without_token
                THEN Again(attempt, TRUE, FALSE, code, slept)
                ELSE Counted(code)
       \/ /\ UNCHANGED <<object_ids, qdata>>  \* urlopen or json.loads raised
          /\ Counted(0)

\* The locals of the retry loop (lines 849-853) are written before every loop
\* and read by nothing after line 899 except object_ids and qurl_used: they
\* are cleared when the code after the loop has run.
LoopLeft ==
    /\ attempt' = 0 /\ tried_without_token' = FALSE /\ qparams_token' = FALSE
    /\ requests' = 0 /\ slept' = 0 /\ last_err' = -1

\* AfterLoop doing what its message says ("skipping"): no IDs -> skipped.
AfterLoop_Skips ==
    /\ pc = "after"
    /\ LoopLeft
    /\ UNCHANGED <<env, args, gdb, fd_exists, tmp_fcs, selection, prior, ops,
                   raised, calls, object_ids, qdata, qurl_used>>
    /\ IF object_ids = <<>>
       THEN FileSkipped /\ Continue
       ELSE pc' = "filter" /\ UNCHANGED <<idx, buckets>>

\* Lines 886-895, after the retry loop: no IDs -> failed with a diagnostic.
AfterLoop ==
    /\ pc = "after"
    /\ LoopLeft
    /\ UNCHANGED <<env, args, gdb, fd_exists, tmp_fcs, selection, prior, ops,
                   raised, calls, object_ids, qdata, qurl_used>>
    /\ IF object_ids = <<>>
       THEN FileFailed(Diag(qurl_used, last_err)) /\ Continue
       ELSE pc' = "filter" /\ UNCHANGED <<idx, buckets>>

\* Line 898: ",".join(str(int(i)) for i in object_ids).
RECURSIVE Join(_)
Join(ids) ==
    IF ids = <<>> THEN <<>>
    ELSE IF Len(ids) = 1 THEN <<ids[1]>>
    ELSE <<ids[1], ",">> \o Join(Tail(ids))

\* Line 897.
oid_field == IF qdata # "" THEN qdata ELSE "OBJECTID"

\* WhereIds losing the last ID of the list.
WhereIds_DropsLast(field, ids) ==
    <<field, " IN (">> \o Join(SubSeq(ids, 1, Len(ids) - 1)) \o <<")">>

\* Line 899: f"{oid_field} IN ({id_list})".
WhereIds(field, ids) == <<field, " IN (">> \o Join(ids) \o <<")">>

\* What the service selects for such a where clause: the features whose
\* object ID is one of the values between the brackets.
LayerSelection(where) ==
    {f \in ServiceOids : \E k \in 3..(Len(where) - 1) : where[k] = f}

\* Lines 897-913: MakeFeatureLayer with the "IN (...)" where clause.
MakeFilteredLayer ==
    /\ pc = "filter"
    /\ ops' = ops \cup {"MakeFeatureLayer"}
    /\ where_ids' = WhereIds(oid_field, object_ids)
    /\ UNCHANGED <<env, args, gdb, fd_exists, tmp_fcs, fallback, prior, made_layer,
                   count, stamped, calls>>
    /\ \E ok \in BOOLEAN :
          /\ selection_succeeded' = ok
          /\ IF ok THEN pc' = "count" /\ UNCHANGED <<idx, buckets, raised>>
             ELSE /\ raised' = raised \cup {"MakeFilteredLayer"}
                  /\ FileFailed(Diag(qurl_used, 1))
                  /\ Continue

\* GetCount without the "count < 1" branch of lines 945-957.
GetCount_NoZeroCheck ==
    /\ pc = "count"
    /\ ops' = ops \cup {"GetCount"}
    /\ UNCHANGED <<env, args, gdb, fd_exists, tmp_fcs, fallback, prior, made_layer,
                   selection_succeeded, stamped, where_ids>>
    /\ \/ /\ UNCHANGED count
          /\ Abort("GetCount")
       \/ \E c \in (IF where_ids = <<>> THEN {0, 2}
                    ELSE {Cardinality(LayerSelection(where_ids))}) :
             /\ count' = c
             /\ UNCHANGED <<calls, raised>>
             /\ pc' = IF fd_exists THEN "stage" ELSE "fd"
             /\ UNCHANGED <<idx, buckets>>

\* Lines 942-957: GetCount, outside every handler of the loop body.
GetCount ==
    /\ pc = "count"
    /\ ops' = ops \cup {"GetCount"}
    /\ UNCHANGED <<env, args, gdb, fd_exists, tmp_fcs, fallback, prior, made_layer,
                   selection_succeeded, stamped, where_ids>>
    /\ \/ /\ UNCHANGED count
          /\ Abort("GetCount")
       \/ \E c \in (IF where_ids = <<>> THEN {0, 2}
                    ELSE {Cardinality(LayerSelection(where_ids))}) :
             /\ count' = c
             /\ UNCHANGED <<calls, raised>>
             /\ IF c < 1 THEN FileSkipped /\ Continue
                ELSE /\ pc' = IF fd_exists THEN "stage" ELSE "fd"
                     /\ UNCHANGED <<idx, buckets>>

\* Lines 959-962: CreateFeatureDataset, outside every handler of the loop body.
CreateFeatureDataset ==
    /\ pc = "fd"
    /\ ops' = ops \cup {"CreateFeatureDataset"}
    /\ UNCHANGED <<env, args, gdb, tmp_fcs, fallback, prior, selection>>
    /\ \E ok \in BOOLEAN :
          IF ok THEN /\ fd_exists' = TRUE /\ pc' = "stage"
                     /\ UNCHANGED <<idx, buckets, calls, raised>>
          ELSE UNCHANGED fd_exists /\ Abort("CreateFeatureDataset")

\* Lines 964-989: Clip or CopyFeatures into tmp_out.  A failing tool may or
\* may not leave an output behind.
\* Line 707: ... or "INTERSECT".
BufferActionOf(r) ==
    IF r.buffer_action = <<>> THEN IntersectAction ELSE r.buffer_action

\* str.strip(): leading and trailing whitespace removed.
RECURSIVE Strip(_)
Strip(a) ==
    IF a = <<>> THEN a
    ELSE IF a[1] = " " THEN Strip(Tail(a))
    ELSE IF a[Len(a)] = " " THEN Strip(SubSeq(a, 1, Len(a) - 1))
    ELSE a

\* str.upper(), over the letters the values are written with.
UpperChar(c) ==
    CASE c = "c" -> "C" [] c = "l" -> "L" [] c = "i" -> "I" [] c = "p" -> "P"
      [] OTHER -> c
Upper(a) == [k \in 1..Len(a) |-> UpperChar(a[k])]

\* StageTool comparing without upper().
StageTool_CaseSensitive ==
    IF Strip(BufferActionOf(rec)) = ClipAction THEN "Clip" ELSE "CopyFeatures"

\* Line 966: buffer_action and buffer_action.strip().upper() == "CLIP".
StageTool ==
    IF BufferActionOf(rec) # <<>> /\ Upper(Strip(BufferActionOf(rec))) = ClipAction
    THEN "Clip" ELSE "CopyFeatures"

\* Stage without the handler of lines 982-989: a failed tool goes on to commit.
Stage_FailureIgnored ==
    /\ pc = "stage"
    /\ ops' = ops \cup {StageTool}
    /\ UNCHANGED <<env, args, gdb, fd_exists, fallback, prior, selection, calls,
                   idx, buckets>>
    /\ pc' = "stamp"
    /\ \/ /\ tmp_fcs' = tmp_fcs \cup {tmp_out}
          /\ UNCHANGED raised
       \/ /\ tmp_fcs' = tmp_fcs \cup {tmp_out}
          /\ raised' = raised \cup {StageTool}

Stage ==
    /\ pc = "stage"
    /\ ops' = ops \cup {StageTool}
    /\ UNCHANGED <<env, args, gdb, fd_exists, fallback, prior, selection, calls>>
    /\ \/ /\ tmp_fcs' = tmp_fcs \cup {tmp_out}
          /\ pc' = "stamp"
          /\ UNCHANGED <<idx, buckets, raised>>
       \/ \E left \in BOOLEAN, delok \in BOOLEAN :
             /\ DeleteTmp(left, delok, {StageTool})
             /\ FileFailed(<<>>)
             /\ Continue

\* The URL column of row i of the reference table (rows have their own URL).
service_url(i) == <<"url", i>>

\* datetime.now(): the k-th reading of the clock while record i of this call
\* is processed; no two readings give the same value.
Now(i, k) == <<run, i, k>>

\* ExtractDate and ExtractURL of a row of tmp_out before line 997.
Unstamped == [ExtractDate |-> <<0, 0, 0>>, ExtractURL |-> <<"url", 0>>]

\* Stamp reading the clock for every row.
Stamp_ClockPerRow ==
    /\ pc = "stamp"
    /\ ops' = ops \cup {"Stamp"}
    /\ \E ok \in BOOLEAN, k \in 0..count :
          /\ stamped' = [i \in 1..count |->
                           IF ok \/ i <= k
                           THEN [ExtractDate |-> Now(idx, i),
                                 ExtractURL |-> service_url(idx)]
                           ELSE Unstamped]
          /\ raised' = IF ok THEN raised ELSE raised \cup {"Stamp"}
    /\ pc' = "commit"
    /\ UNCHANGED <<env, args, gdb, fd_exists, tmp_fcs, idx, buckets, fallback, prior,
                   made_layer, selection_succeeded, count, where_ids, calls>>

\* Lines 991-1004: ExtractDate / ExtractURL on tmp_out, best effort.  The
\* staged output has one row per selected feature; the clock is read once
\* (line 997); a failure leaves the rows before it stamped.
Stamp ==
    /\ pc = "stamp"
    /\ ops' = ops \cup {"Stamp"}
    /\ \E ok \in BOOLEAN, k \in 0..count :
          /\ stamped' = [i \in 1..count |->
                           IF ok \/ i <= k
                           THEN [ExtractDate |-> Now(idx, 1),
                                 ExtractURL |-> service_url(idx)]
                           ELSE Unstamped]
          /\ raised' = IF ok THEN raised ELSE raised \cup {"Stamp"}
    /\ pc' = "commit"
    /\ UNCHANGED <<env, args, gdb, fd_exists, tmp_fcs, idx, buckets, fallback, prior,
                   made_layer, selection_succeeded, count, where_ids, calls>>

\* Commit without the "continue" of line 1019: a failed delete goes on to copy.
Commit_CopiesAfterFailedDelete ==
    /\ pc = "commit"
    /\ UNCHANGED <<env, args, fd_exists, fallback, prior, selection, calls, idx,
                   skipped, failed, fallback_qurls_for_failed, processed_outputs,
                   tmp_fcs>>
    /\ pc' = "copy"
    /\ IF gdb[out_fc] # Absent
       THEN /\ ops' = ops \cup {"Delete"}
            /\ UNCHANGED extracted_new
            /\ \/ /\ gdb' = [gdb EXCEPT ![out_fc] = Absent]
                  /\ replaced' = Append(replaced, short_name)
                  /\ UNCHANGED raised
               \/ /\ raised' = raised \cup {"Delete"}
                  /\ UNCHANGED <<gdb, replaced>>
       ELSE /\ extracted_new' = Append(extracted_new, short_name)
            /\ UNCHANGED <<ops, gdb, replaced, raised>>

\* Lines 1007-1031: delete the existing output, mark replaced / extracted.
Commit ==
    /\ pc = "commit"
    /\ UNCHANGED <<env, args, fd_exists, fallback, prior, selection, calls>>
    /\ IF gdb[out_fc] # Absent
       THEN /\ ops' = ops \cup {"Delete"}
            /\ \/ /\ gdb' = [gdb EXCEPT ![out_fc] = Absent]
                  /\ replaced' = Append(replaced, short_name)
                  /\ pc' = "copy"
                  /\ UNCHANGED <<idx, extracted_new, skipped, failed,
                                 fallback_qurls_for_failed, processed_outputs,
                                 tmp_fcs, raised>>
               \/ \E delok \in BOOLEAN :
                     /\ UNCHANGED gdb
                     /\ DeleteTmp(TRUE, delok, {"Delete"})
                     /\ FileFailed(<<>>)
                     /\ Continue
       ELSE /\ extracted_new' = Append(extracted_new, short_name)
            /\ pc' = "copy"
            /\ UNCHANGED <<ops, gdb, idx, replaced, skipped, failed,
                           fallback_qurls_for_failed, processed_outputs, tmp_fcs,
                           raised>>

\* CopyFinal without the Delete(tmp_out) of lines 1034-1037.
CopyFinal_LeavesTmp ==
    /\ pc = "copy"
    /\ ops' = ops \cup {"CopyFinal"}
    /\ UNCHANGED <<env, args, fd_exists, fallback, prior, selection, calls>>
    /\ \E delok \in BOOLEAN :
          \/ /\ gdb' = [gdb EXCEPT ![out_fc] = Extract(run, idx)]
             /\ tmp_fcs' = tmp_fcs \cup {tmp_out}
             /\ UNCHANGED raised
             /\ processed_outputs' = Append(processed_outputs, short_name)
             /\ UNCHANGED <<extracted_new, replaced, skipped, failed,
                            fallback_qurls_for_failed>>
          \/ /\ \E left \in {Absent, Partial(run, idx)} :
                   gdb' = [gdb EXCEPT ![out_fc] = left]
             /\ DeleteTmp(TRUE, delok, {"CopyFinal"})
             /\ FileFailed(<<>>)
    /\ Continue

\* CopyFinal whose successful copy writes nothing at out_fc.
CopyFinal_NoWrite ==
    /\ pc = "copy"
    /\ ops' = ops \cup {"CopyFinal"}
    /\ UNCHANGED <<env, args, fd_exists, fallback, prior, selection, calls>>
    /\ \E delok \in BOOLEAN :
          \/ /\ UNCHANGED gdb
             /\ DeleteTmp(TRUE, delok, {})
             /\ processed_outputs' = Append(processed_outputs, short_name)
             /\ UNCHANGED <<extracted_new, replaced, skipped, failed,
                            fallback_qurls_for_failed>>
          \/ /\ \E left \in {Absent, Partial(run, idx)} :
                   gdb' = [gdb EXCEPT ![out_fc] = left]
             /\ DeleteTmp(TRUE, delok, {"CopyFinal"})
             /\ FileFailed(<<>>)
    /\ Continue

\* Lines 1033-1041 and 1096-1113: CopyFeatures(tmp_out, out_fc).  A failing
\* copy leaves nothing or a partly written feature class at out_fc.
CopyFinal ==
    /\ pc = "copy"
    /\ ops' = ops \cup {"CopyFinal"}
    /\ UNCHANGED <<env, args, fd_exists, fallback, prior, selection, calls>>
    /\ \E delok \in BOOLEAN :
          \/ /\ gdb' = [gdb EXCEPT ![out_fc] = Extract(run, idx)]
             /\ DeleteTmp(TRUE, delok, {})
             /\ processed_outputs' = Append(processed_outputs, short_name)
             /\ UNCHANGED <<extracted_new, replaced, skipped, failed,
                            fallback_qurls_for_failed>>
          \/ /\ \E left \in {Absent, Partial(run, idx)} :
                   gdb' = [gdb EXCEPT ![out_fc] = left]
             /\ DeleteTmp(TRUE, delok, {"CopyFinal"})
             /\ FileFailed(<<>>)
    /\ Continue

\* Lines 1124-1283: reports, cleanup of tmp_ feature classes, the summary.
Finish ==
    /\ pc = "rec" /\ idx > Len(features)
    /\ tmp_fcs' \in SUBSET tmp_fcs
    /\ Return([success |-> TRUE, extracted |-> extracted_new, replaced |-> replaced,
               skipped |-> skipped, failed |-> failed])
    /\ UNCHANGED <<env, args, gdb, fd_exists, idx, buckets, fallback, prior, ops,
                   selection, raised>>

Steps ==
    \/ StudyAreaQuery
    \/ ReferenceQuery
    \/ BeginRecord
    \/ Buffer
    \/ MakeFeatureLayer
    \/ SelectLayerByLocation
    \/ FallbackPrepare
    \/ RestQuery
    \/ AfterLoop
    \/ MakeFilteredLayer
    \/ GetCount
    \/ CreateFeatureDataset
    \/ Stage
    \/ Stamp
    \/ Commit
    \/ CopyFinal
    \/ Finish

Next == StartRun \/ Steps

Spec == Init /\ [][Next]_vars

\* The function called with both flags left at their default (False).
StartPlain ==
    /\ pc = "idle"
    /\ \E tok \in BOOLEAN, pn \in ProjectNumbers, fc \in BOOLEAN :
          Enter(FALSE, FALSE, tok, pn, fc)

\* A second call of the function, same arguments, after the first returned.
RerunPlain ==
    /\ pc = "returned" /\ Len(calls) = 1
    /\ \E tok \in BOOLEAN, pn \in ProjectNumbers, fc \in BOOLEAN :
          Enter(FALSE, FALSE, tok, pn, fc)

NextRerun == StartPlain \/ RerunPlain \/ Steps

SpecRerun == Init /\ [][NextRerun]_vars

\* ---------------------------------------------------------- run_create_site
\* Runs of run_create_site followed (the store outlives a run).
MaxRuns == 2

Projects == {"P1", "P2"}

\* Stores a first run can find: at most one active record per project.
InitialStores ==
    { <<>>,
      <<[project_number |-> "P1", EndDate |-> NULL]>>,
      <<[project_number |-> "P2", EndDate |-> NULL]>>,
      <<[project_number |-> "P1", EndDate |-> 1],
        [project_number |-> "P1", EndDate |-> NULL]>>,
      <<[project_number |-> "P2", EndDate |-> NULL],
        [project_number |-> "P1", EndDate |-> NULL]>> }

\* build_project_defq, lines 31-73: project_number = X AND EndDate IS NULL.
Active(st, pn) ==
    {k \in 1..Len(st) : st[k].project_number = pn /\ st[k].EndDate = NULL}

now_dt == runs + 1

site_locals == <<project_number, property_count, archived_count, appended_success>>
site_temps == <<temps, failed_temp_deletes>>

\* The artifacts whose path the run puts in created_temp_paths (lines 391,
\* 423, 436, 444, 477, 513, 530, 647); the temporary layers are not in it.
Tracked ==
    {"geocoded_point", "geocode_copy", "geocode_buf", "temp_property",
     "temp_dissolved", "study_area_mem"}

\* try: Delete(x) / except: pass, for each x of del; kept are those whose
\* delete raised.
DeleteTemps(have, del, kept) ==
    /\ temps' = (have \ del) \cup kept
    /\ failed_temp_deletes' = failed_temp_deletes \cup kept

ReturnSite(r) ==
    /\ result' = r
    /\ runs' = runs + 1
    /\ step' = "returned"

\* Lines 797-801: an exception that reaches the handler of the whole function;
\* result is returned as initialised.
RaiseSite == ReturnSite(DefaultResult)

\* Lines 316-356.
CreateStart ==
    /\ step \in {"idle", "returned"} /\ runs < MaxRuns
    /\ \E pn \in Projects : project_number' = pn
    /\ property_count' = 0 /\ archived_count' = 0 /\ appended_success' = FALSE
    /\ store0' = store
    /\ log' = <<>>
    /\ temps' = {} /\ failed_temp_deletes' = {}
    /\ step' = "geocode"
    /\ UNCHANGED <<import_vars, more_vars, pct_vars, order_vars, report_vars, store, result, runs>>

\* Lines 358-394: findAddressCandidates, one request; the point is copied.
Geocode ==
    /\ step = "geocode"
    /\ log' = Append(log, "geocode")
    /\ UNCHANGED <<import_vars, more_vars, pct_vars, order_vars, report_vars, store, store0, site_locals>>
    /\ UNCHANGED failed_temp_deletes
    /\ \E candidates \in 0..1, ok \in BOOLEAN :
          IF ~ok THEN RaiseSite /\ UNCHANGED temps
          ELSE IF candidates = 0 THEN ReturnSite(DefaultResult) /\ UNCHANGED temps
          ELSE /\ step' = "select" /\ UNCHANGED <<result, runs>>
               /\ temps' = temps \cup {"geocoded_point"}

\* Lines 396-404: the parcel layer, SelectLayerByLocation CONTAINS, GetCount.
SelectParcel ==
    /\ step = "select"
    /\ log' = Append(log, "contains")
    /\ UNCHANGED <<import_vars, more_vars, pct_vars, order_vars, report_vars, store, store0, project_number, archived_count,
                   appended_success>>
    /\ UNCHANGED failed_temp_deletes
    /\ \/ /\ UNCHANGED property_count /\ RaiseSite
          /\ \E made \in BOOLEAN :
                temps' = IF made THEN temps \cup {"temp_property_layer"} ELSE temps
       \/ \E n \in 0..2 :
             /\ property_count' = n
             /\ temps' = temps \cup {"temp_property_layer"}
             /\ step' = IF n = 0 THEN "probe" ELSE "copy"
             /\ UNCHANGED <<result, runs>>

\* The copy of the point and the buffer of the probe (the projected copy
\* stands for the copy when the layer is in WGS84), and what an exception
\* inside the probe finds created.
ProbeTemps == {"geocode_copy", "geocode_buf"}
ProbeLeft == {{}, {"geocode_copy"}, ProbeTemps}

\* FallbackBufferProbe without the return of line 459: zero parcels go on.
FallbackBufferProbe_GoesOn ==
    /\ step = "probe"
    /\ log' = Append(log, "probe")
    /\ UNCHANGED <<import_vars, more_vars, pct_vars, order_vars, report_vars, store, store0, project_number, archived_count,
                   appended_success>>
    /\ \/ /\ UNCHANGED <<property_count, failed_temp_deletes>>
          /\ ReturnSite(DefaultResult)
          /\ \E left \in ProbeLeft : temps' = temps \cup left
       \/ \E n \in 0..2, kept \in SUBSET ProbeTemps :
             /\ property_count' = n
             /\ DeleteTemps(temps \cup ProbeTemps, ProbeTemps, kept)
             /\ step' = "copy" /\ UNCHANGED <<result, runs>>

\* Lines 406-467: the 2 metre buffer around the point, INTERSECT, GetCount.
FallbackBufferProbe ==
    /\ step = "probe"
    /\ log' = Append(log, "probe")
    /\ UNCHANGED <<import_vars, more_vars, pct_vars, order_vars, report_vars, store, store0, project_number, archived_count,
                   appended_success>>
    /\ \/ /\ UNCHANGED <<property_count, failed_temp_deletes>>   \* line 464
          /\ ReturnSite(DefaultResult)
          /\ \E left \in ProbeLeft : temps' = temps \cup left
       \/ \E n \in 0..2, kept \in SUBSET ProbeTemps :
             /\ property_count' = n
             /\ DeleteTemps(temps \cup ProbeTemps, ProbeTemps, kept)
             /\ IF n = 0 THEN ReturnSite(DefaultResult)
                ELSE step' = "copy" /\ UNCHANGED <<result, runs>>

\* Lines 469-533: the selection copied to the geodatabase, repaired, and
\* dissolved when it has more than one parcel.
Dissolve ==
    /\ step = "copy"
    /\ log' = Append(log, IF property_count > 1 THEN "dissolve" ELSE "copy")
    /\ UNCHANGED <<import_vars, more_vars, pct_vars, order_vars, report_vars, store, store0, site_locals>>
    /\ LET gone == {"temp_property_layer", "geocoded_point"}
           made == IF property_count > 1 THEN {"temp_property", "temp_dissolved"}
                   ELSE {"temp_property"}
       IN  \/ /\ RaiseSite                          \* CopyFeatures, line 475
              /\ UNCHANGED site_temps
           \/ \E kept \in SUBSET (gone \cap temps) :
                 /\ DeleteTemps(temps \cup {"temp_property"}, gone, kept)
                 /\ RaiseSite                       \* RepairGeometry, Dissolve
           \/ \E kept \in SUBSET (gone \cap temps) :
                 /\ DeleteTemps(temps \cup made, gone, kept)
                 /\ step' = "attributes" /\ UNCHANGED <<result, runs>>

\* Lines 535-581: fields added, the row filled in, EndDate set to None.
PopulateAttributes ==
    /\ step = "attributes"
    /\ log' = Append(log, "attributes")
    /\ UNCHANGED <<import_vars, more_vars, pct_vars, order_vars, report_vars, store, store0, site_locals,
                   site_temps>>
    /\ \/ RaiseSite
       \/ step' = "archive" /\ UNCHANGED <<result, runs>>

\* The store with EndDate = now on the records ks.
Archived(st, ks) ==
    [k \in 1..Len(st) |->
        IF k \in ks THEN [st[k] EXCEPT !.EndDate = now_dt] ELSE st[k]]

\* Lines 583-613: select the active records of project_number and set their
\* EndDate row by row.  A failure before the cursor archives nothing; a
\* failing updateRow leaves the rows before it archived; archived_count is
\* assigned when the loop has ended.
ArchivePriorActive ==
    /\ step = "archive"
    /\ step' = "append"
    /\ UNCHANGED <<import_vars, more_vars, pct_vars, order_vars, report_vars, store0, project_number, property_count,
                   appended_success, result, runs>>
    /\ \/ /\ log' = Append(log, "select_active")
          /\ UNCHANGED <<store, archived_count, failed_temp_deletes>>
          /\ \E made \in BOOLEAN :
                temps' = IF made THEN temps \cup {"temp_target_layer"} ELSE temps
       \/ /\ Active(store, project_number) = {}
          /\ log' = Append(log, "select_active")
          /\ UNCHANGED <<store, archived_count>>
          /\ \E kept \in SUBSET {"temp_target_layer"} :
                DeleteTemps(temps \cup {"temp_target_layer"}, {"temp_target_layer"}, kept)
       \/ /\ Active(store, project_number) # {}
          /\ log' = log \o <<"select_active", "update">>
          /\ \E kept \in SUBSET {"temp_target_layer"} :
                DeleteTemps(temps \cup {"temp_target_layer"}, {"temp_target_layer"}, kept)
          /\ \/ /\ store' = Archived(store, Active(store, project_number))
                /\ archived_count' = Cardinality(Active(store, project_number))
             \/ \E ks \in SUBSET Active(store, project_number) :
                   /\ ks # Active(store, project_number)
                   /\ \A k \in ks, j \in Active(store, project_number) :
                         j < k => j \in ks
                   /\ store' = Archived(store, ks)
                   /\ UNCHANGED archived_count

\* Lines 615-622: Append(working_fc, target_layer_url).
AppendToStore ==
    /\ step = "append"
    /\ log' = Append(log, "append")
    /\ step' = "reflect"
    /\ UNCHANGED site_temps
    /\ UNCHANGED <<import_vars, more_vars, pct_vars, order_vars, report_vars, store0, project_number, property_count,
                   archived_count, result, runs>>
    /\ \/ /\ store' = Append(store, [project_number |-> project_number,
                                     EndDate |-> NULL])
          /\ appended_success' = TRUE
       \/ /\ UNCHANGED store
          /\ appended_success' = FALSE

\* Lines 495-533: the feature class the run works on.
working_fc == IF property_count > 1 THEN "temp_dissolved" ELSE "temp_property"

\* Lines 624-799: the study area for step 2, the map, the cleanup, the result.
\* Every part is wrapped in its own handler.  The cleanup (lines 716-782)
\* deletes the paths of created_temp_paths except the study area returned.
ReflectInMap ==
    /\ step = "reflect"
    /\ log' = Append(log, "reflect")
    /\ UNCHANGED <<import_vars, more_vars, pct_vars, order_vars, report_vars, store, store0, site_locals>>
    /\ \E sa \in (IF appended_success THEN {"study_area_mem", "working_fc"}
                  ELSE {"working_fc"}) :
          /\ ReturnSite([success |-> TRUE, study_area |-> sa,
                         appended |-> appended_success,
                         archived_count |-> archived_count])
          /\ LET protected == IF sa = "study_area_mem" THEN sa ELSE working_fc
                 have == IF sa = "study_area_mem" THEN temps \cup {sa} ELSE temps
                 del == (have \cap Tracked) \ {protected}
             IN  \E kept \in SUBSET del : DeleteTemps(have, del, kept)

NextCreateSite ==
    \/ CreateStart
    \/ Geocode
    \/ SelectParcel
    \/ FallbackBufferProbe
    \/ Dissolve
    \/ PopulateAttributes
    \/ ArchivePriorActive
    \/ AppendToStore
    \/ ReflectInMap

\* run_import_std_site_layers idle over a fixed geodatabase.
InitCreateSite ==
    /\ ref_table = [k \in 1..MaxRecs |-> CHOOSE r \in RefRecords : r.out_fc = 1]
    /\ gdb = [p \in Paths |-> Absent]
    /\ fd_exists = FALSE
    /\ ImportIdle /\ MoreIdle
    /\ PctIdle(<<>>, [p \in PctPaths |-> NoFc])
    /\ OrderIdle /\ ReportIdle
    /\ \E st \in InitialStores : SiteIdle(st)

SpecCreateSite == InitCreateSite /\ [][NextCreateSite]_vars

\* ----------------------- two runs of run_create_site on the shared store
\* Each run is taken from the point where its working feature class is
\* ready (line 583); nothing before that point touches the store.  The
\* calls of one run on the store are served in program order, the calls of
\* the two runs in any order.
race_others == <<import_vars, site_vars, pct_vars, order_vars, report_vars, map_vars,
                 lots_vars, clean_vars, first_call>>

\* EndDate = datetime.now() as run p writes it.
RaceArchived(st, ks, p) ==
    [k \in 1..Len(st) |-> IF k \in ks THEN [st[k] EXCEPT !.EndDate = p] ELSE st[k]]

\* Lines 316-583 of run p.
RaceStart(p) ==
    /\ race_step[p] = "idle"
    /\ \E pn \in Projects : race_pn' = [race_pn EXCEPT ![p] = pn]
    /\ race_step' = [race_step EXCEPT ![p] = "select"]
    /\ UNCHANGED <<race_others, race_store, race_sel, race_log>>

\* Lines 588-592: MakeFeatureLayer, SelectLayerByAttribute, GetCount.  A
\* failure goes to the handler of line 611 and on to the append.
RaceSelect(p) ==
    /\ race_step[p] = "select"
    /\ UNCHANGED <<race_others, race_store, race_pn>>
    /\ \/ /\ race_sel' = [race_sel EXCEPT ![p] = Active(race_store, race_pn[p])]
          /\ race_log' = Append(race_log, <<p, "select">>)
          /\ race_step' = [race_step EXCEPT ![p] =
                             IF Active(race_store, race_pn[p]) = {}
                             THEN "append" ELSE "update"]
       \/ /\ UNCHANGED race_sel
          /\ race_log' = Append(race_log, <<p, "select_failed">>)
          /\ race_step' = [race_step EXCEPT ![p] = "append"]

\* RaceUpdate setting no EndDate at all.
RaceUpdate_Nothing(p) ==
    /\ race_step[p] = "update"
    /\ UNCHANGED <<race_others, race_pn, race_sel, race_store>>
    /\ race_step' = [race_step EXCEPT ![p] = "append"]
    /\ race_log' = Append(race_log, <<p, "update">>)

\* Lines 593-604: EndDate set on the selected records, row by row; a
\* failing updateRow leaves the rows before it archived.
RaceUpdate(p) ==
    /\ race_step[p] = "update"
    /\ UNCHANGED <<race_others, race_pn, race_sel>>
    /\ race_step' = [race_step EXCEPT ![p] = "append"]
    /\ \/ /\ race_store' = RaceArchived(race_store, race_sel[p], p)
          /\ race_log' = Append(race_log, <<p, "update">>)
       \/ \E ks \in SUBSET race_sel[p] :
             /\ ks # race_sel[p]
             /\ \A k \in ks, j \in race_sel[p] : j < k => j \in ks
             /\ race_store' = RaceArchived(race_store, ks, p)
             /\ race_log' = Append(race_log, <<p, "update_failed">>)

\* Lines 615-622: Append(working_fc, target_layer_url); the rest of the run
\* (lines 624-799) does not write to the store.
RaceAppend(p) ==
    /\ race_step[p] = "append"
    /\ UNCHANGED <<race_others, race_pn, race_sel>>
    /\ race_step' = [race_step EXCEPT ![p] = "returned"]
    /\ \/ /\ race_store' = Append(race_store, [project_number |-> race_pn[p],
                                               EndDate |-> NULL])
          /\ race_log' = Append(race_log, <<p, "append">>)
       \/ /\ UNCHANGED race_store
          /\ race_log' = Append(race_log, <<p, "append_failed">>)

NextRace ==
    \E p \in 1..2 : RaceStart(p) \/ RaceSelect(p) \/ RaceUpdate(p) \/ RaceAppend(p)

InitRace ==
    /\ ref_table = [k \in 1..MaxRecs |-> CHOOSE r \in RefRecords : ~r.url]
    /\ gdb = [p \in Paths |-> Absent]
    /\ fd_exists = FALSE
    /\ ImportIdle /\ SiteIdle(<<>>)
    /\ PctIdle(<<>>, [p \in PctPaths |-> NoFc])
    /\ OrderIdle /\ ReportIdle /\ MapIdle({}) /\ LotsIdle(NoLotsTable)
    /\ CleanIdle({}, NoStudyArea)
    /\ first_call = <<>>
    /\ \E st \in InitialStores : RaceIdle(st)

SpecRace == InitRace /\ [][NextRace]_vars

\* ------------------------------ the map of run_import_std_site_layers
\* Layers the map can hold before the run: two named like an output, one of
\* them inside a group layer, and one with another name.
OldLayers ==
    { [id |-> 1, name |-> "lots", longName |-> <<"", "lots">>, visible |-> TRUE],
      [id |-> 2, name |-> "lots", longName |-> <<"Group", "lots">>, visible |-> TRUE],
      [id |-> 3, name |-> "roads", longName |-> <<"", "roads">>, visible |-> TRUE] }

\* Short names of the committed outputs, and the name of a feature class
\* (the name a layer has until it is renamed).
DisplayNames == {"lots", "roads", "zones"}
FcName(n) == IF n = "lots" THEN "lots_fc" ELSE IF n = "roads" THEN "roads_fc" ELSE "zones_fc"

map_others == <<import_vars, site_vars, pct_vars, order_vars, report_vars, race_vars,
                lots_vars, clean_vars, first_call>>

\* Lines 615-620 and 690-694: the names of the layers of the map, the empty
\* set when listLayers raises.
MapCapture ==
    /\ map_pc = "idle"
    /\ \/ preexisting_layer_names' = {l.name : l \in site_map}
       \/ preexisting_layer_names' = {}
    /\ map_pc' = "add"
    /\ UNCHANGED <<map_others, site_map, final_layer, display_name, map_added>>

\* Lines 442-520 called on line 1046 for a committed output: the layer is
\* added at the root of the map and renamed to the short name; the rename
\* is best effort; a failing add returns None and the cleanup is not called.
\* The styling of lines 1051-1088 keeps the name and the place of the layer.
MapAdd ==
    /\ map_pc = "add" /\ map_added < MaxRecs
    /\ map_added' = map_added + 1
    /\ \E n \in DisplayNames :
          /\ display_name' = n
          /\ \/ /\ UNCHANGED site_map
                /\ final_layer' = NoLayer
                /\ map_pc' = "add"
             \/ \E renamed \in BOOLEAN :
                   LET nm == IF renamed THEN n ELSE FcName(n)
                       lyr == [id |-> 10 + map_added, name |-> nm,
                               longName |-> <<"", nm>>, visible |-> TRUE]
                   IN  /\ site_map' = site_map \cup {lyr}
                       /\ final_layer' = lyr
                       /\ map_pc' = "cleanup"
    /\ UNCHANGED <<map_others, preexisting_layer_names>>

\* The layers _cleanup_duplicates tries to remove (lines 289-309).
Duplicates(m, final, name, preexisting) ==
    {l \in m : /\ ~(l.name = final.name /\ l.longName = final.longName)
               /\ l.name = name
               /\ name \in preexisting}

\* Lines 283-333 called on line 1091: each duplicate is removed, or hidden
\* when removeLayer raises.
MapCleanup ==
    /\ map_pc = "cleanup"
    /\ LET dup == Duplicates(site_map, final_layer, display_name,
                             preexisting_layer_names)
       IN  \E hidden \in SUBSET dup :
              site_map' = (site_map \ dup)
                          \cup {[l EXCEPT !.visible = FALSE] : l \in hidden}
    /\ map_pc' = "add"
    /\ UNCHANGED <<map_others, preexisting_layer_names, final_layer, display_name,
                   map_added>>

NextMap == MapCapture \/ MapAdd \/ MapCleanup

InitMap ==
    /\ ref_table = [k \in 1..MaxRecs |-> CHOOSE r \in RefRecords : ~r.url]
    /\ gdb = [p \in Paths |-> Absent]
    /\ fd_exists = FALSE
    /\ ImportIdle /\ SiteIdle(<<>>)
    /\ PctIdle(<<>>, [p \in PctPaths |-> NoFc])
    /\ OrderIdle /\ ReportIdle /\ RaceIdle(<<>>) /\ LotsIdle(NoLotsTable)
    /\ CleanIdle({}, NoStudyArea)
    /\ first_call = <<>>
    /\ \E m \in SUBSET OldLayers : MapIdle(m)

SpecMap == InitMap /\ [][NextMap]_vars

\* ----------------------- SiteLotsReport of run_import_std_site_layers
\* The run from the loop over the reference records on: what each record
\* adds to processed_outputs, the report, the return.
\* Short names of the outputs, as strings of characters.
OutputNames ==
    { <<"L", "o", "t", "s">>, <<"S", "i", "t", "e", "P", "L", "O", "T">>,
      <<"R", "o", "a", "d", "s">>, <<"l", "o", " ", "t">> }

\* str.lower(), over the letters the names are written with.
LowerChar(c) ==
    CASE c = "L" -> "l" [] c = "O" -> "o" [] c = "T" -> "t" [] c = "S" -> "s"
      [] c = "P" -> "p" [] c = "R" -> "r" [] c = "B" -> "b" [] OTHER -> c
LowerCase(a) == [k \in 1..Len(a) |-> LowerChar(a[k])]

\* "lot" in a
ContainsLot(a) ==
    \E k \in 1..(Len(a) - 2) : a[k] = "l" /\ a[k + 1] = "o" /\ a[k + 2] = "t"

\* Line 1128: "lot" in po["shortname"].lower()
IsLots(a) == ContainsLot(LowerCase(a))

\* Lines 1126-1130: the path of the first such output, <<>> for None.
lots_fc ==
    LET K == {k \in 1..Len(lots_outputs) : IsLots(lots_outputs[k])}
    IN  IF K = {} THEN <<>>
        ELSE lots_outputs[CHOOSE k \in K : \A j \in K : k <= j]

lots_others == <<import_vars, site_vars, pct_vars, order_vars, report_vars, race_vars,
                 map_vars, clean_vars, first_call>>

\* Lines 524-695: the run up to the loop.
LotsStart ==
    /\ lots_pc = "idle"
    /\ lots_pc' = "loop"
    /\ UNCHANGED <<lots_others, lots_outputs, lots_seen, lots_table, lots_table0>>

\* Lines 697-1122 for one record: it is committed and appended to
\* processed_outputs (line 1041), or it is skipped or failed, or a call
\* outside the handlers of the loop body raises (lines 772, 942, 962) and
\* the handler of line 1285 returns.
LotsRecord ==
    /\ lots_pc = "loop" /\ lots_seen < MaxRecs
    /\ lots_seen' = lots_seen + 1
    /\ UNCHANGED <<lots_others, lots_table, lots_table0>>
    /\ \/ \E n \in OutputNames :
             /\ lots_outputs' = Append(lots_outputs, n)
             /\ UNCHANGED lots_pc
       \/ UNCHANGED <<lots_outputs, lots_pc>>
       \/ /\ UNCHANGED lots_outputs
          /\ lots_pc' = "returned"

\* Lines 1124-1202, then the return of line 1283: without a Lots output the
\* table is not touched; with one, a raise before or in Delete leaves the
\* table, a raise in CreateTable leaves none, a later raise (or no source
\* field) leaves a table without all its rows.
LotsReport ==
    /\ lots_pc = "loop" /\ lots_seen = MaxRecs
    /\ lots_pc' = "returned"
    /\ UNCHANGED <<lots_others, lots_outputs, lots_seen, lots_table0>>
    /\ IF lots_fc = <<>>
       THEN UNCHANGED lots_table
       ELSE \/ UNCHANGED lots_table
            \/ lots_table' = NoLotsTable
            \/ \E done \in BOOLEAN :
                  lots_table' = [exists |-> TRUE, by |-> lots_fc, complete |-> done]

NextLots == LotsStart \/ LotsRecord \/ LotsReport

InitLots ==
    /\ ref_table = [k \in 1..MaxRecs |-> CHOOSE r \in RefRecords : ~r.url]
    /\ gdb = [p \in Paths |-> Absent]
    /\ fd_exists = FALSE
    /\ ImportIdle /\ SiteIdle(<<>>)
    /\ PctIdle(<<>>, [p \in PctPaths |-> NoFc])
    /\ OrderIdle /\ ReportIdle /\ RaceIdle(<<>>) /\ MapIdle({})
    /\ CleanIdle({}, NoStudyArea)
    /\ first_call = <<>>
    /\ \E t \in {NoLotsTable, OldLotsTable} : LotsIdle(t)

SpecLots == InitLots /\ [][NextLots]_vars

\* ------------------ end-of-run cleanup of run_import_std_site_layers
\* Items at the root of the default geodatabase: <<kind, name>>.
TempProperty == <<"fc", <<"t", "e", "m", "p", "_", "p", "r", "o", "p", "e", "r", "t", "y", "_", "1">>>>
TempDissolved == <<"fc", <<"t", "e", "m", "p", "_", "d", "i", "s", "s", "o", "l", "v", "e", "d", "_", "1">>>>
TempSites == <<"fc", <<"T", "e", "m", "p", "_", "S", "i", "t", "e", "s">>>>
Boundary == <<"fc", <<"B", "o", "u", "n", "d", "a", "r", "y">>>>
TmpExtract == <<"fc", <<"t", "m", "p", "_", "e", "x", "t", "r", "a", "c", "t", "_", "1">>>>
TmpOutput == <<"fc", <<"t", "m", "p", "_", "o", "u", "t", "p", "u", "t">>>>
TmpTable == <<"table", <<"t", "m", "p", "_", "t", "a", "b", "l", "e">>>>

\* What the caller can have at the root before the run: the working
\* feature classes of run_create_site, data of the user.
RootBefore == {TempProperty, TempDissolved, TempSites, Boundary}

\* study_area_fc as run_create_site returns it (CreateSiteByProperty.py
\* lines 624-656): the in_memory copy of the appended feature, or the
\* working feature class in the default geodatabase.
InMemoryStudyArea == <<"in_memory", <<"i", "n", "_", "m", "e", "m", "o", "r", "y", "/", "s", "a">>>>
StudyAreas == {NoStudyArea, InMemoryStudyArea, TempProperty, TempDissolved}

\* Line 1228.
prefixes ==
    { <<"t", "m", "p", "_", "e", "x", "t", "r", "a", "c", "t", "_">>, <<"t", "e", "m", "p", "_", "d", "i", "s", "s", "o", "l", "v", "e", "d", "_">>,
      <<"t", "e", "m", "p", "_", "p", "r", "o", "p", "e", "r", "t", "y", "_">>, <<"t", "m", "p", "_">>, <<"t", "e", "m", "p", "_">> }

\* a.startswith(p)
StartsWith(a, p) == Len(a) >= Len(p) /\ SubSeq(a, 1, Len(p)) = p

\* Lines 1233 and 1246: any(fc.lower().startswith(pref.lower()) ...)
IsTemp(name) == \E pref \in prefixes : StartsWith(LowerCase(name), LowerCase(pref))

\* Lines 1231-1253: the items the cleanup calls Delete on; a feature class
\* that is a processed output is passed over, a table never.
CleanTargets(r, outputs) ==
    {it \in r : IsTemp(it[2]) /\ ~(it[1] = "fc" /\ it \in outputs)}

clean_others == <<import_vars, site_vars, pct_vars, order_vars, report_vars, race_vars,
                  map_vars, lots_vars, first_call>>

\* Line 524: the call, with the study area of the caller or none.
CleanStart ==
    /\ clean_pc = "idle"
    /\ clean_pc' = "run"
    /\ UNCHANGED <<clean_others, root, root0, study_area, clean_made>>

\* Lines 697-1122: what the loop leaves at the root of default_gdb: a
\* staging output its Delete did not remove, an output, a table.
CleanMake ==
    /\ clean_pc = "run"
    /\ \E it \in {TmpExtract, TmpOutput, TmpTable} \ root :
          /\ root' = root \cup {it}
          /\ clean_made' = clean_made \cup {it}
    /\ UNCHANGED <<clean_others, clean_pc, root0, study_area>>

\* Line 1285: an exception none of the handlers of the loop catches; the
\* run returns without the cleanup.
CleanAbort ==
    /\ clean_pc = "run"
    /\ clean_pc' = "returned"
    /\ UNCHANGED <<clean_others, root, root0, study_area, clean_made>>

\* Lines 1225-1258 and the return: Delete on every target, each Delete
\* may fail (warning only).
CleanUp ==
    /\ clean_pc = "run"
    /\ \E kept \in SUBSET CleanTargets(root, {TmpOutput}) :
          root' = (root \ CleanTargets(root, {TmpOutput})) \cup kept
    /\ clean_pc' = "returned"
    /\ UNCHANGED <<clean_others, root0, study_area, clean_made>>

NextClean == CleanStart \/ CleanMake \/ CleanAbort \/ CleanUp

InitClean ==
    /\ ref_table = [k \in 1..MaxRecs |-> CHOOSE r \in RefRecords : ~r.url]
    /\ gdb = [p \in Paths |-> Absent]
    /\ fd_exists = FALSE
    /\ ImportIdle /\ SiteIdle(<<>>)
    /\ PctIdle(<<>>, [p \in PctPaths |-> NoFc])
    /\ OrderIdle /\ ReportIdle /\ RaceIdle(<<>>) /\ MapIdle({})
    /\ LotsIdle(NoLotsTable)
    /\ first_call = <<>>
    /\ \E r \in SUBSET RootBefore, sa \in StudyAreas :
          /\ sa[1] = "fc" => sa \in r
          /\ CleanIdle(r, sa)

SpecClean == InitClean /\ [][NextClean]_vars

\* ---------------------------------------------------------- run_pct_analysis
pct_locals ==
    <<buffer_fc, pct_made_layer, selected_oids, piece_count, created_any, pieces,
      pct_ops, pct_prior>>
pct_args == <<default_gdb, pct_overwrite, pct_requery>>
pct_feat == records[pct_idx]
out_fc_final == pct_feat.ShortName

\* One entry of results.
Entry(status, created, ps) ==
    [index |-> pct_idx, status |-> status, created |-> created, pieces |-> ps]

\* NextRecord whose handler of line 359 leaves the loop (break for continue).
NextRecord_ErrorEndsLoop(e) ==
    /\ results' = Append(results, e)
    /\ pct_idx' = IF e.status = "error" THEN Len(records) + 1 ELSE pct_idx + 1
    /\ pct_pc' = "rec"

\* results.append(rec); continue
NextRecord(e) ==
    /\ results' = Append(results, e)
    /\ pct_idx' = pct_idx + 1
    /\ pct_pc' = "rec"

\* PctStart without the return of line 111.
PctStart_NoGdbCheck ==
    /\ pct_pc = "idle"
    /\ \E output_gdb \in BOOLEAN,
          aprx \in {"None", "no_default", "default", "raises"},
          ow \in BOOLEAN, fr \in BOOLEAN :
          /\ pct_overwrite' = ow /\ pct_requery' = fr
          /\ results' = <<>>
          /\ default_gdb' = (output_gdb \/ aprx = "default")
          /\ pct_pc' = IF ~output_gdb /\ aprx = "raises" THEN "returned" ELSE "query"
    /\ UNCHANGED <<import_vars, more_vars, site_vars, order_vars, report_vars, pct_table, pct_gdb, records, pct_idx,
                   pct_locals>>

\* Lines 103-111 and 369-371: results = [], the output geodatabase is
\* output_gdb or the default geodatabase of aprx; without one the function
\* returns results.  aprx.defaultGeodatabase is read only without output_gdb,
\* and when reading it raises the handler of line 369 returns results.
PctStart ==
    /\ pct_pc = "idle"
    /\ \E output_gdb \in BOOLEAN,
          aprx \in {"None", "no_default", "default", "raises"},
          ow \in BOOLEAN, fr \in BOOLEAN :
          /\ pct_overwrite' = ow /\ pct_requery' = fr
          /\ results' = <<>>
          /\ default_gdb' = (output_gdb \/ aprx = "default")
          /\ pct_pc' = IF output_gdb \/ aprx = "default" THEN "query" ELSE "returned"
    /\ UNCHANGED <<import_vars, more_vars, site_vars, order_vars, report_vars, pct_table, pct_gdb, records, pct_idx,
                   pct_locals>>

\* Lines 117-130 and 40-56: the area for the log, then the reference query;
\* a failing request and an error envelope both give no records.
PctQuery ==
    /\ pct_pc = "query"
    /\ records' \in {pct_table, <<>>}
    /\ pct_idx' = 1 /\ pct_pc' = "rec"
    /\ UNCHANGED <<import_vars, more_vars, site_vars, order_vars, report_vars, pct_table, pct_gdb, pct_args, results,
                   pct_locals>>

\* Lines 147-179: the attributes of the record, the URL check, the existence
\* check; an exception here is caught at line 359.
PctBeginRecord ==
    /\ pct_pc = "rec" /\ pct_idx <= Len(records)
    /\ UNCHANGED <<import_vars, more_vars, site_vars, order_vars, report_vars, pct_table, pct_gdb, pct_args, records>>
    /\ buffer_fc' = "study_area" /\ pct_made_layer' = FALSE
    /\ selected_oids' = <<>> /\ piece_count' = 0 /\ created_any' = FALSE
    /\ pieces' = <<>> /\ pct_ops' = {}
    /\ pct_prior' = pct_gdb[out_fc_final]
    /\ \/ NextRecord(Entry("error", FALSE, <<>>))
       \/ IF ~pct_feat.URL
          THEN NextRecord(Entry("skipped", FALSE, <<>>))
          ELSE IF pct_gdb[out_fc_final].exists /\ ~pct_overwrite /\ ~pct_requery
          THEN NextRecord(Entry("skipped", FALSE, <<>>))
          ELSE pct_pc' = "buffer" /\ UNCHANGED <<results, pct_idx>>

\* Lines 181-200: the buffer, built only for a distance above 0; when Buffer
\* fails the study area is used.
PctBuffer ==
    /\ pct_pc = "buffer"
    /\ UNCHANGED <<import_vars, more_vars, site_vars, order_vars, report_vars, pct_table, pct_gdb, pct_args, records,
                   pct_idx, results, pct_made_layer, selected_oids, piece_count,
                   created_any, pieces,
                   pct_prior>>
    /\ pct_pc' = "make"
    /\ IF ParsedDistance(pct_feat.SiteBuffer) > 0
       THEN /\ pct_ops' = pct_ops \cup {<<"Buffer", "">>}
            /\ buffer_fc' \in {"buffer", "study_area"}
       ELSE UNCHANGED <<pct_ops, buffer_fc>>

\* Lines 202-210.
PctMakeFeatureLayer ==
    /\ pct_pc = "make"
    /\ UNCHANGED <<import_vars, more_vars, site_vars, order_vars, report_vars, pct_table, pct_gdb, pct_args, records,
                   pct_idx, results, buffer_fc, selected_oids, piece_count,
                   created_any, pieces,
                   pct_prior>>
    /\ pct_ops' = pct_ops \cup {<<"MakeFeatureLayer", "">>}
    /\ pct_made_layer' \in BOOLEAN
    /\ pct_pc' = "select"

\* Lines 212-243: SelectLayerByLocation with the record's BufferAction as the
\* overlap type (only INTERSECT is one), the object IDs of the selection read
\* by a cursor; an exception leaves the IDs read so far.  Without IDs the
\* record is skipped.
PctSelect ==
    /\ pct_pc = "select"
    /\ UNCHANGED <<import_vars, more_vars, site_vars, order_vars, report_vars, pct_table, pct_gdb, pct_args, records,
                   buffer_fc, pct_made_layer, piece_count, created_any, pieces,
                   pct_prior>>
    /\ pct_ops' = IF pct_made_layer THEN pct_ops \cup {<<"SelectLayerByLocation",
                                                         pct_feat.BufferAction>>}
                  ELSE pct_ops
    /\ \E oids \in OidLists :
          /\ (~pct_made_layer \/ pct_feat.BufferAction # "INTERSECT") => oids = <<>>
          /\ selected_oids' = oids
          /\ IF oids = <<>>
             THEN NextRecord(Entry("skipped", FALSE, <<>>))
             ELSE pct_pc' = "piece" /\ UNCHANGED <<results, pct_idx>>

\* Lines 289-306: the first piece written; an existing output is deleted
\* under overwrite_flag (a failing delete is ignored), then the piece is copied
\* to the final path when nothing is there and appended to it otherwise.
FirstWrite(fc, oid, delok) ==
    LET cur == IF fc.exists /\ pct_overwrite /\ delok THEN NoFc ELSE fc
    IN  [exists |-> TRUE, rows |-> Append(cur.rows, oid)]

\* Lines 289-299 when the write raises: the delete may have happened.
FirstWriteFailed(fc, delok) ==
    IF fc.exists /\ pct_overwrite /\ delok THEN NoFc ELSE fc

\* Lines 248-331: one selected feature: selected on the layer, copied,
\* clipped (the unclipped piece is used when Clip fails), written to the final
\* output; any exception marks the piece failed and the loop goes on.
PctPiece ==
    /\ pct_pc = "piece" /\ piece_count < Len(selected_oids)
    /\ UNCHANGED <<import_vars, more_vars, site_vars, order_vars, report_vars, pct_table, pct_args, records, pct_idx,
                   results, buffer_fc, pct_made_layer, selected_oids, pct_pc,
                   pct_prior>>
    /\ piece_count' = piece_count + 1
    /\ LET oid == selected_oids[piece_count + 1]
           fc == pct_gdb[out_fc_final]
       IN  \/ /\ pieces' = Append(pieces, "failed")
              /\ UNCHANGED <<pct_gdb, created_any, pct_ops>>
           \/ /\ ~created_any
              /\ pct_ops' = pct_ops \cup {<<"Clip", "">>}
              /\ \E delok \in BOOLEAN :
                    \/ /\ pct_gdb' = [pct_gdb EXCEPT
                                         ![out_fc_final] = FirstWrite(fc, oid, delok)]
                       /\ created_any' = TRUE
                       /\ pieces' = Append(pieces, "ok")
                    \/ /\ pct_gdb' = [pct_gdb EXCEPT
                                         ![out_fc_final] = FirstWriteFailed(fc, delok)]
                       /\ UNCHANGED created_any
                       /\ pieces' = Append(pieces, "failed")
           \/ /\ created_any
              /\ pct_ops' = pct_ops \cup {<<"Clip", "">>}
              /\ UNCHANGED created_any
              /\ \/ /\ pct_gdb' = [pct_gdb EXCEPT
                                      ![out_fc_final].rows = Append(fc.rows, oid)]
                    /\ pieces' = Append(pieces, "ok")
                 \/ /\ UNCHANGED pct_gdb
                    /\ pieces' = Append(pieces, "failed")

\* Lines 333-357: the layer deleted, the output added to the map, the record
\* appended to results.
PctFinishRecord ==
    /\ pct_pc = "piece" /\ piece_count = Len(selected_oids)
    /\ NextRecord(Entry("done", created_any, pieces))
    /\ UNCHANGED <<import_vars, more_vars, site_vars, order_vars, report_vars, pct_table, pct_gdb, pct_args, records,
                   pct_locals>>

\* Lines 366-367.
PctReturn ==
    /\ pct_pc = "rec" /\ pct_idx > Len(records)
    /\ pct_pc' = "returned"
    /\ UNCHANGED <<import_vars, more_vars, site_vars, order_vars, report_vars, pct_table, pct_gdb, pct_args, records,
                   pct_idx, results, pct_locals>>

NextPct ==
    \/ PctStart
    \/ PctQuery
    \/ PctBeginRecord
    \/ PctBuffer
    \/ PctMakeFeatureLayer
    \/ PctSelect
    \/ PctPiece
    \/ PctFinishRecord
    \/ PctReturn

\* The other tools idle, run_pct_analysis over any reference rows and outputs.
InitPct ==
    /\ ref_table = [k \in 1..MaxRecs |-> CHOOSE r \in RefRecords : ~r.url]
    /\ gdb = [p \in Paths |-> Absent]
    /\ fd_exists = FALSE
    /\ ImportIdle /\ MoreIdle
    /\ SiteIdle(<<>>)
    /\ \E t \in PctTables, g \in [PctPaths -> {NoFc, OldFc}] : PctIdle(t, g)
    /\ OrderIdle /\ ReportIdle

SpecPct == InitPct /\ [][NextPct]_vars

\* ------------------------------------ run_pct_analysis called again
\* The caller repeats the call with the same arguments on the geodatabase
\* the first call left (lines 103-111 for the second time).
PctAgain ==
    /\ pct_pc = "returned" /\ default_gdb /\ first_call = <<>>
    /\ first_call' = <<[results |-> results, records |-> records, gdb |-> pct_gdb]>>
    /\ results' = <<>>
    /\ pct_pc' = "query"
    /\ UNCHANGED <<import_vars, site_vars, order_vars, report_vars, race_vars, map_vars,
                   lots_vars, clean_vars, pct_table, pct_gdb, pct_args,
                   records, pct_idx, pct_locals>>

NextPctAgain == NextPct \/ PctAgain

SpecPctAgain == InitPct /\ [][NextPctAgain]_vars

\* ------------------------------------------------- one call of either tool
\* A behaviour is one call of run_import_std_site_layers or one call of
\* run_pct_analysis, the other tool staying idle.
ImportAlone == pct_pc = "idle" /\ StartRun
PctAlone == pc = "idle" /\ PctStart

NextTools ==
    \/ ImportAlone
    \/ Steps
    \/ PctAlone
    \/ PctQuery
    \/ PctBeginRecord
    \/ PctBuffer
    \/ PctMakeFeatureLayer
    \/ PctSelect
    \/ PctPiece
    \/ PctFinishRecord
    \/ PctReturn

SpecTools == (Init \/ InitPct) /\ [][NextTools]_vars

\* ------------------------------------------ any value of SiteBuffer
\* One call of either tool over a first row with any SiteBuffer.
InitDistance ==
    /\ fd_exists = FALSE
    /\ gdb = [p \in Paths |-> Absent]
    /\ ImportIdle /\ MoreIdle /\ SiteIdle(<<>>) /\ OrderIdle /\ ReportIdle
    /\ \E v \in RawBuffers :
          \/ /\ ref_table = [k \in 1..MaxRecs |->
                               IF k = 1
                               THEN [url |-> TRUE, site_buffer |-> v,
                                     buffer_action |-> IntersectAction, out_fc |-> 1]
                               ELSE CHOOSE r \in RefRecords : ~r.url]
             /\ PctIdle(<<>>, [p \in PctPaths |-> NoFc])
          \/ /\ ref_table = [k \in 1..MaxRecs |-> CHOOSE r \in RefRecords : ~r.url]
             /\ PctIdle(<<[SortOrder |-> 1, ShortName |-> "a", URL |-> TRUE,
                           SiteBuffer |-> v, BufferAction |-> "INTERSECT"]>>,
                        [p \in PctPaths |-> NoFc])

SpecDistance == InitDistance /\ [][NextTools]_vars

\* One call of run_import_std_site_layers over a table whose first row has
\* any spelling of BufferAction.
InitAction ==
    /\ fd_exists = FALSE
    /\ gdb = [p \in Paths |-> Absent]
    /\ ImportIdle /\ MoreIdle /\ SiteIdle(<<>>) /\ OrderIdle /\ ReportIdle
    /\ PctIdle(<<>>, [p \in PctPaths |-> NoFc])
    /\ \E a \in RawActions, v \in {"0", "50"} :
          ref_table = [k \in 1..MaxRecs |->
                         IF k = 1
                         THEN [url |-> TRUE, site_buffer |-> v,
                               buffer_action |-> a, out_fc |-> 1]
                         ELSE CHOOSE r \in RefRecords : ~r.url]

SpecAction == InitAction /\ [][Next]_vars

\* ------------------------------------- the same records in two orderings
\* ShortName as a string of characters.
ShortNames ==
    { <<"a", " ", "b">>, <<"a", "-", "b">>, <<"1">> }

\* Rows with a ShortName: two of them differ only in a character that
\* _sanitize_fc_name replaces.
NamedRecords ==
    { [ShortName |-> <<"a", " ", "b">>, url |-> TRUE],
      [ShortName |-> <<"a", "-", "b">>, url |-> TRUE],
      [ShortName |-> <<"1">>, url |-> TRUE],
      [ShortName |-> <<"1">>, url |-> FALSE] }

\* re.sub(r'[^0-9A-Za-z_]', '_', name)
Substituted(name) ==
    [i \in 1..Len(name) |-> IF name[i] \in {"a", "b", "1", "_"} THEN name[i] ELSE "_"]

\* re.sub(r'_{2,}', '_', s)
RECURSIVE Collapsed(_)
Collapsed(name) ==
    IF Len(name) < 2 THEN name
    ELSE IF name[1] = "_" /\ name[2] = "_" THEN Collapsed(Tail(name))
    ELSE <<name[1]>> \o Collapsed(Tail(name))

\* s.strip('_')
RECURSIVE Stripped(_)
Stripped(name) ==
    IF name = <<>> THEN name
    ELSE IF name[1] = "_" THEN Stripped(Tail(name))
    ELSE IF name[Len(name)] = "_" THEN Stripped(SubSeq(name, 1, Len(name) - 1))
    ELSE name

\* Lines 336-351 (max_len = 63 is never reached by these names).
sanitize_fc_name(name) ==
    LET layer == <<"l", "a", "y", "e", "r">>
        s1 == Stripped(Collapsed(Substituted(name)))
        s2 == IF s1 = <<>> THEN layer ELSE s1
    IN  IF name = <<>> THEN layer
        ELSE IF s2[1] = "1" THEN <<"f", "_">> \o s2 ELSE s2

\* out_fc of a row (all rows use the default feature dataset).
OutFc(r) == sanitize_fc_name(r.ShortName)
OldRows == <<"o", "l", "d">>
OrderPaths == {OutFc(r) : r \in NamedRecords}
Exists(g, p) == \E f \in g : f.path = p

\* Lines 697-1041 for one row when no local tool fails: the row is skipped
\* without URL, skipped when its output exists and no flag is set, failed
\* when the service cannot be reached by either path, skipped when nothing
\* intersects; otherwise its extract replaces what is at the final path and
\* the row goes to replaced when something was there, to extracted_new
\* otherwise.
Processed(w, r) ==
    LET name == r.ShortName
        p == OutFc(r)
    IN  IF ~r.url
        THEN [w EXCEPT !.skipped = @ \cup {name}]
        ELSE IF Exists(w.gdb, p) /\ ~order_args.overwrite_flag
                /\ ~order_args.force_requery
        THEN [w EXCEPT !.skipped = @ \cup {name}]
        ELSE IF name \in order_args.unreachable
        THEN [w EXCEPT !.failed = @ \cup {name}]
        ELSE IF name \notin order_args.found
        THEN [w EXCEPT !.skipped = @ \cup {name}]
        ELSE LET g == {f \in w.gdb : f.path # p} \cup {[path |-> p, rows |-> name]}
             IN  IF Exists(w.gdb, p)
                 THEN [w EXCEPT !.gdb = g, !.replaced = @ \cup {name}]
                 ELSE [w EXCEPT !.gdb = g, !.extracted_new = @ \cup {name}]

\* The orderings of rows with distinct ShortName, MaxRecs of them.
Orderings ==
    {t \in [1..MaxRecs -> NamedRecords] :
        \A i, j \in 1..MaxRecs : i # j => t[i].ShortName # t[j].ShortName}
SameRows(t, u) == {t[i] : i \in 1..Len(t)} = {u[i] : i \in 1..Len(u)}

\* Two calls with the same arguments over the same geodatabase content, the
\* reference rows in two orders, every service answering the same in both.
OrderStart ==
    /\ order_pc = "idle"
    /\ \E t \in Orderings, u \in Orderings, ow \in BOOLEAN, fr \in BOOLEAN,
          found \in SUBSET ShortNames, unreachable \in SUBSET ShortNames,
          old \in SUBSET OrderPaths :
          /\ SameRows(t, u)
          /\ found \cap unreachable = {}
          /\ found \cup unreachable \subseteq {t[i].ShortName : i \in 1..Len(t)}
          /\ order_args' = [first |-> t, second |-> u, overwrite_flag |-> ow,
                            force_requery |-> fr, found |-> found,
                            unreachable |-> unreachable]
          /\ LET g == {[path |-> p, rows |-> OldRows] : p \in old}
             IN  /\ first_run' = [NoRun EXCEPT !.gdb = g]
                 /\ second_run' = [NoRun EXCEPT !.gdb = g]
    /\ order_idx' = 1
    /\ order_pc' = "rec"
    /\ UNCHANGED <<import_vars, more_vars, site_vars, pct_vars, report_vars>>

\* One pass of the loop in each run.
OrderRecord ==
    /\ order_pc = "rec" /\ order_idx <= Len(order_args.first)
    /\ first_run' = Processed(first_run, order_args.first[order_idx])
    /\ second_run' = Processed(second_run, order_args.second[order_idx])
    /\ order_idx' = order_idx + 1
    /\ UNCHANGED <<import_vars, more_vars, site_vars, pct_vars, report_vars, order_pc, order_args>>

OrderReturn ==
    /\ order_pc = "rec" /\ order_idx > Len(order_args.first)
    /\ order_pc' = "returned"
    /\ UNCHANGED <<import_vars, more_vars, site_vars, pct_vars, report_vars, order_args, order_idx,
                   first_run, second_run>>

NextOrder == OrderStart \/ OrderRecord \/ OrderReturn

\* Every tool idle.
InitOrder ==
    /\ ref_table = [k \in 1..MaxRecs |-> CHOOSE r \in RefRecords : ~r.url]
    /\ gdb = [p \in Paths |-> Absent]
    /\ fd_exists = FALSE
    /\ ImportIdle /\ MoreIdle
    /\ SiteIdle(<<>>)
    /\ PctIdle(<<>>, [p \in PctPaths |-> NoFc])
    /\ OrderIdle /\ ReportIdle

SpecOrder == InitOrder /\ [][NextOrder]_vars

\* ---------------------------------------------------------- create_pct_report
\* Rows of the PCT layer: the identity values and the geodesic area of the
\* shape in whole square metres.
PctFeatures == [PCTID : {"A", "B"}, PCTName : {"Foo", "Bar"}, area : {50, 100}]
FeatureLists == UNION {[1..n -> PctFeatures] : n \in 0..MaxFeatures}
TotalAreas == {0, 300}
\* Field lists of the PCT layer (ListFields order).
FieldLists ==
    { <<"PCTID", "PCTName">>, <<"Shape", "pct_id", "PctName">>,
      <<"PCTName">>, <<"Shape">> }
IdCandidates == <<"PCTID", "pctid", "PCT_ID">>
NameCandidates == <<"PCTName", "pctname", "PCT_Name", "PCTNAME">>
\* str.lower()
Lower(f) ==
    CASE f \in {"PCTID", "pctid"} -> "pctid"
      [] f \in {"PCT_ID", "pct_id"} -> "pct_id"
      [] f \in {"PCTName", "pctname", "PCTNAME", "PctName"} -> "pctname"
      [] f = "PCT_Name" -> "pct_name"
      [] f = "Shape" -> "shape"
      [] OTHER -> f
Unset == 0 - 1
OldReport ==
    [exists |-> TRUE,
     rows |-> {[PCTID |-> "Z", PCTName |-> "Old", Sum_area_m |-> 1,
                Sum_SiteCoveragePct |-> 1]}]

\* Lines 14-19: the first candidate that some field matches without regard
\* to case, and the first such field.
get_field_by_candidates(field_list, candidates) ==
    LET hit(i, j) == Lower(field_list[j]) = Lower(candidates[i])
        I == {i \in 1..Len(candidates) : \E j \in 1..Len(field_list) : hit(i, j)}
    IN  IF I = {} THEN "None"
        ELSE LET i == CHOOSE x \in I : \A y \in I : x <= y
                 J == {j \in 1..Len(field_list) : hit(i, j)}
             IN  field_list[CHOOSE x \in J : \A y \in J : x <= y]

\* round(n / d, 0) for n >= 0, d > 0, halves to the even neighbour.
RoundDiv(n, d) ==
    LET q == n \div d
        r == n % d
    IN  IF 2 * r < d THEN q
        ELSE IF 2 * r > d THEN q + 1
        ELSE IF q % 2 = 0 THEN q ELSE q + 1

\* Lines 65-66: round(100.0 * a_m / site_area_m2, 1), in tenths of a percent.
CoverageTenths(a_m, total) ==
    IF total > 0 THEN RoundDiv(1000 * a_m, total) ELSE 0

\* Lines 60-67 for one row.
Calculated(f) ==
    [f EXCEPT !.area_m = f.area,
              !.SiteCoveragePct = CoverageTenths(f.area, site_area_m2)]

RECURSIVE SumOf(_, _, _)
SumOf(rows, key, field) ==
    IF rows = <<>> THEN 0
    ELSE (IF <<rows[1].PCTID, rows[1].PCTName>> = key THEN rows[1][field] ELSE 0)
         + SumOf(Tail(rows), key, field)

\* Lines 80-87: summary[key]["area_m"] and ["sitecov"] summed per key.
Summarized(rows) ==
    { [PCTID |-> key[1], PCTName |-> key[2],
       area_m |-> SumOf(rows, key, "area_m"),
       sitecov |-> SumOf(rows, key, "SiteCoveragePct")] :
      key \in {<<rows[k].PCTID, rows[k].PCTName>> : k \in 1..Len(rows)} }

\* Line 102: the row inserted for one key; round(sitecov, 1) of a sum of
\* tenths is that sum.
ReportRow(v) ==
    [PCTID |-> v.PCTID, PCTName |-> v.PCTName, Sum_area_m |-> v.area_m,
     Sum_SiteCoveragePct |-> v.sitecov]

ReportReturn(r) == report_ret' = r /\ report_pc' = "returned"

\* Lines 35-43: the arguments.
ReportStart ==
    /\ report_pc = "idle"
    /\ \E rows \in FeatureLists, fl \in FieldLists, total \in TotalAreas,
          old \in {NoTable, OldReport}, given \in BOOLEAN :
          /\ pct_fc' = [k \in 1..Len(rows) |->
                          [PCTID |-> rows[k].PCTID, PCTName |-> rows[k].PCTName,
                           area |-> rows[k].area, area_m |-> Unset,
                           SiteCoveragePct |-> Unset]]
          /\ pct_fields' = fl
          /\ site_area_m2' = total
          /\ report_table' = old
          /\ IF given THEN report_pc' = "calculate" /\ UNCHANGED report_ret
             ELSE ReportReturn("None")
    /\ summary' = {}
    /\ UNCHANGED <<import_vars, more_vars, site_vars, pct_vars, order_vars>>

\* Lines 45-67: the two fields added when missing, then area_m and
\* SiteCoveragePct written row by row; an exception (a field that could not
\* be added, a failing update) goes to line 110 with the rows updated so far.
ReportCalculate ==
    /\ report_pc = "calculate"
    /\ pct_fields' = pct_fields \o <<"area_m", "SiteCoveragePct">>
    /\ \E n \in 0..Len(pct_fc) :
          /\ pct_fc' = [k \in 1..Len(pct_fc) |->
                          IF k <= n THEN Calculated(pct_fc[k]) ELSE pct_fc[k]]
          /\ \/ n = Len(pct_fc) /\ report_pc' = "fields" /\ UNCHANGED report_ret
             \/ ReportReturn("None")
    /\ UNCHANGED <<import_vars, more_vars, site_vars, pct_vars, order_vars, site_area_m2,
                   summary, report_table>>

\* ReportSummarize with each row of a key replacing the sum so far.
ReportSummarize_KeepsLast ==
    /\ report_pc = "summarize"
    /\ \/ /\ LET K(key) == {k \in 1..Len(pct_fc) :
                              <<pct_fc[k].PCTID, pct_fc[k].PCTName>> = key}
                 LastArea(key) ==
                     pct_fc[CHOOSE k \in K(key) : \A j \in K(key) : j <= k].area_m
             IN  summary' = { [v EXCEPT !.area_m =
                                  LastArea(<<v.PCTID, v.PCTName>>)] :
                              v \in Summarized(pct_fc) }
          /\ report_pc' = "table" /\ UNCHANGED report_ret
       \/ UNCHANGED summary /\ ReportReturn("None")
    /\ UNCHANGED <<import_vars, more_vars, site_vars, pct_vars, order_vars, pct_fc, pct_fields,
                   site_area_m2, report_table>>

\* ReportFields without the check of lines 73-76.
ReportFields_GoesOn ==
    /\ report_pc = "fields"
    /\ report_pc' = "summarize" /\ UNCHANGED report_ret
    /\ UNCHANGED <<import_vars, more_vars, site_vars, pct_vars, order_vars, pct_fc, pct_fields,
                   site_area_m2, summary, report_table>>

\* Lines 69-76: the identity fields; without one of them the function
\* returns None.
ReportFields ==
    /\ report_pc = "fields"
    /\ IF \/ get_field_by_candidates(pct_fields, IdCandidates) = "None"
          \/ get_field_by_candidates(pct_fields, NameCandidates) = "None"
       THEN ReportReturn("None")
       ELSE report_pc' = "summarize" /\ UNCHANGED report_ret
    /\ UNCHANGED <<import_vars, more_vars, site_vars, pct_vars, order_vars, pct_fc, pct_fields,
                   site_area_m2, summary, report_table>>

\* Lines 78-87: one pass over the rows; a failing cursor goes to line 110.
ReportSummarize ==
    /\ report_pc = "summarize"
    /\ \/ /\ summary' = Summarized(pct_fc)
          /\ report_pc' = "table" /\ UNCHANGED report_ret
       \/ UNCHANGED summary /\ ReportReturn("None")
    /\ UNCHANGED <<import_vars, more_vars, site_vars, pct_vars, order_vars, pct_fc, pct_fields,
                   site_area_m2, report_table>>

\* Lines 89-108: an existing table deleted, the table created, one row
\* inserted per key; an exception at any point returns None and leaves what
\* was done so far.
ReportCreateTable ==
    /\ report_pc = "table"
    /\ \/ /\ report_table' = [exists |-> TRUE,
                              rows |-> {ReportRow(v) : v \in summary}]
          /\ ReportReturn("PCT_Report")
       \/ /\ UNCHANGED report_table
          /\ ReportReturn("None")
       \/ /\ report_table' = NoTable
          /\ ReportReturn("None")
       \/ /\ \E vs \in SUBSET summary :
                /\ vs # summary
                /\ report_table' = [exists |-> TRUE,
                                    rows |-> {ReportRow(v) : v \in vs}]
          /\ ReportReturn("None")
    /\ UNCHANGED <<import_vars, more_vars, site_vars, pct_vars, order_vars, pct_fc, pct_fields,
                   site_area_m2, summary>>

NextReport ==
    \/ ReportStart
    \/ ReportCalculate
    \/ ReportFields
    \/ ReportSummarize
    \/ ReportCreateTable

SpecReport == InitOrder /\ [][NextReport]_vars

\* ------------------------------------------------------------------ claims
\* The record the loop has just filed, and what the locals say about it.
JobDone == pc = "rec" /\ idx > 1
last == idx - 1
last_out == features[last].out_fc
Refresh == overwrite_flag \/ force_requery
Staged == "Clip" \in ops \/ "CopyFeatures" \in ops
Set(s) == {s[k] : k \in 1..Len(s)}

\* C1: a record whose final output existed and is being refreshed, and whose
\* final copy from staging failed, still has its previous output, unchanged,
\* at the final path when the job has terminated.
C1_AtomicReplace ==
    (JobDone /\ Refresh /\ prior # Absent /\ "CopyFinal" \in raised)
    => gdb[last_out] = prior

\* C2: a record whose final output exists when it is reached, with both flags
\* False, is filed as skipped and nothing was done for it: no external call
\* (buffer, layer, selection, REST query, staging), no staging output, and the
\* final output is what it was.
C2_ShortCircuit ==
    (JobDone /\ ~Refresh /\ prior # Absent)
    => /\ skipped # <<>> /\ skipped[Len(skipped)] = last
       /\ ~InList(extracted_new, last) /\ ~InList(replaced, last)
       /\ ~InList(failed, last)
       /\ ops = {}
       /\ <<run, last>> \notin tmp_fcs
       /\ gdb[last_out] = prior

C2_Witness ==
    /\ JobDone /\ ~Refresh /\ prior # Absent /\ features[last].url
    /\ InList(skipped, last)

\* The summaries returned so far.
Returned(k) == pc = "returned" /\ Len(calls) = k
S(k) == calls[k].summary
Committed(k) == Set(S(k).extracted) \cup Set(S(k).replaced)
Filed(k) == Committed(k) \cup Set(S(k).skipped) \cup Set(S(k).failed)
RerunDone ==
    /\ Returned(2) /\ S(1).success /\ S(2).success
    /\ Filed(1) = 1..Len(ref_table) /\ Filed(2) = 1..Len(ref_table)
NoFailure == S(1).failed = <<>> /\ S(2).failed = <<>>
SameRemote == Set(S(1).skipped) \subseteq Set(S(2).skipped)

\* C3 as stated: after two complete runs over the same reference rows with
\* both flags False, in which no
\* step failed and what the first run skipped the second skips again (nothing
\* changed outside), the second run's extracted and replaced lists are empty
\* and its skipped list is the set of records the first run committed.
C3_Rerun_AsStated ==
    (RerunDone /\ NoFailure /\ SameRemote)
    => /\ S(2).extracted = <<>> /\ S(2).replaced = <<>>
       /\ Set(S(2).skipped) = Committed(1)

\* C3, amended: after two complete runs over the same reference rows with
\* both flags False the second run's
\* replaced list is empty and every record the first run committed, and did
\* not also file as failed, is skipped and neither extracted nor failed by
\* the second run; when moreover no step failed in either run and what the
\* first run skipped is skipped again, the second run extracts nothing and
\* skips the records the first run committed together with those it skipped.
C3_Rerun ==
    RerunDone
    => /\ S(2).replaced = <<>>
       /\ \A i \in Committed(1) \ Set(S(1).failed) :
             /\ i \in Set(S(2).skipped)
             /\ i \notin Set(S(2).extracted) \cup Set(S(2).failed)
       /\ (NoFailure /\ SameRemote)
             => /\ S(2).extracted = <<>>
                /\ Set(S(2).skipped) = Committed(1) \cup Set(S(1).skipped)

C3_Witness ==
    /\ RerunDone /\ NoFailure /\ SameRemote
    /\ Committed(1) # {} /\ S(1).skipped # <<>>
    /\ Committed(1) \subseteq Set(S(2).skipped)

\* ----- the summary of one run
Records == 1..Len(features)
Summary == S(Len(calls))
Lists(i) == {b \in {"extracted", "replaced", "skipped", "failed"} :
                InList(Summary[b], i)}

\* C4: whatever call raises while a record is processed, the run returns
\* success=True and every record of the table is in a bucket.
C4_NeverAborts ==
    (pc = "returned" /\ features # <<>>)
    => /\ Summary.success
       /\ \A i \in Records : Lists(i) # {}

\* C5: when the run returns success=True every record is in exactly one of
\* the four lists.
C5_Partition ==
    (pc = "returned" /\ Summary.success)
    => \A i \in Records : Cardinality(Lists(i)) = 1

\* C6: when the run returns success=True every failed record has an entry in
\* the diagnostics list and every entry names a failed record.
C6_Diagnostics ==
    (pc = "returned" /\ Summary.success)
    => /\ \A i \in Set(failed) :
             \E k \in 1..Len(fallback_qurls_for_failed) :
                fallback_qurls_for_failed[k].shortname = i
       /\ \A k \in 1..Len(fallback_qurls_for_failed) :
             fallback_qurls_for_failed[k].shortname \in Set(failed)

\* ----- staging and commit of one record
BeforeCommit ==
    pc \in {"buffer", "open", "select", "fallback", "rest", "after", "filter",
            "count", "fd", "stage", "stamp", "commit"}
StageRaised == "Clip" \in raised \/ "CopyFeatures" \in raised
TmpLeft == <<run, last>> \in tmp_fcs

\* C7: until the commit step the final output is what it was and neither the
\* delete nor the final copy has been called; commit and copy are reached
\* only with the staging output written by a staging tool that did not fail;
\* the copy is reached only with the final path empty, after a delete that
\* did not fail if there was an old output; and a finished record on which
\* the delete or the copy was called had a successful staging before.
C7_CommitOrdering ==
    /\ BeforeCommit
          => /\ gdb[out_fc] = prior
             /\ "Delete" \notin ops /\ "CopyFinal" \notin ops
    /\ pc \in {"commit", "copy"}
          => tmp_out \in tmp_fcs /\ Staged /\ ~StageRaised
    /\ pc = "copy"
          => /\ gdb[out_fc] = Absent /\ "Delete" \notin raised
             /\ prior # Absent => "Delete" \in ops
    /\ JobDone
          => /\ "Delete" \in ops => Staged /\ ~StageRaised
             /\ "CopyFinal" \in ops
                   => /\ Staged /\ ~StageRaised /\ "Delete" \notin raised
                      /\ prior # Absent => "Delete" \in ops
             /\ "CopyFinal" \notin ops => gdb[last_out] = prior

C7_Witness ==
    /\ pc = "copy" /\ prior # Absent /\ "Delete" \in ops
    /\ gdb[out_fc] = Absent /\ tmp_out \in tmp_fcs

\* C8 as stated: a failed delete of the old output files the record as failed
\* and not as replaced or extracted, leaves no staging output, is not followed
\* by the final copy and leaves the old output in place; a successful delete
\* marks the record replaced, no old output marks it extracted.
C8_DeleteOld_AsStated ==
    JobDone
    => /\ "Delete" \in raised
             => /\ InList(failed, last)
                /\ ~InList(replaced, last) /\ ~InList(extracted_new, last)
                /\ ~TmpLeft
                /\ "CopyFinal" \notin ops
                /\ gdb[last_out] = prior /\ prior # Absent
       /\ ("Delete" \in ops /\ "Delete" \notin raised) => InList(replaced, last)
       /\ ("CopyFinal" \in ops /\ "Delete" \notin ops)
             => InList(extracted_new, last)

\* C8, amended: as stated, except that the staging output is deleted only if
\* its own delete does not fail; that failure is swallowed and the staging
\* output then stays until the cleanup at the end of the run.
C8_DeleteOld ==
    JobDone
    => /\ "Delete" \in raised
             => /\ InList(failed, last)
                /\ ~InList(replaced, last) /\ ~InList(extracted_new, last)
                /\ TmpLeft <=> "DeleteTmp" \in raised
                /\ "CopyFinal" \notin ops
                /\ gdb[last_out] = prior /\ prior # Absent
       /\ ("Delete" \in ops /\ "Delete" \notin raised) => InList(replaced, last)
       /\ ("CopyFinal" \in ops /\ "Delete" \notin ops)
             => InList(extracted_new, last)

C8_Witness ==
    /\ JobDone /\ "Delete" \in raised /\ InList(failed, last)
    /\ ~TmpLeft /\ gdb[last_out] = prior

\* C9 as stated: a failed clip or copy into staging files the record as
\* failed, nothing is written to or deleted from the final path, and no
\* staging output of the record remains.
C9_StagingFailure_AsStated ==
    (JobDone /\ StageRaised)
    => /\ InList(failed, last)
       /\ ~InList(replaced, last) /\ ~InList(extracted_new, last)
       /\ "Delete" \notin ops /\ "CopyFinal" \notin ops
       /\ gdb[last_out] = prior
       /\ ~TmpLeft

\* C9, amended: as stated, except that a staging output the failed tool left
\* behind remains when its delete fails too (that failure is swallowed).
C9_StagingFailure ==
    (JobDone /\ StageRaised)
    => /\ InList(failed, last)
       /\ ~InList(replaced, last) /\ ~InList(extracted_new, last)
       /\ "Delete" \notin ops /\ "CopyFinal" \notin ops
       /\ gdb[last_out] = prior
       /\ TmpLeft <=> "DeleteTmp" \in raised

C9_Witness ==
    /\ JobDone /\ "Clip" \in raised /\ prior # Absent
    /\ InList(failed, last) /\ ~TmpLeft /\ gdb[last_out] = prior

\* ----- the retry loop
Uncounted == IF tried_without_token THEN 1 ELSE 0

\* C10: at the head of the loop fewer than 3 attempts are counted and the
\* requests sent are the counted attempts plus at most one uncounted request,
\* which was the token-stripped retry; when the loop is left at most 3
\* attempts are counted and at most 4 requests were sent; 3 seconds were slept
\* for every counted attempt and at no other time.  Every iteration sends one
\* request, so the loop ends within 4 iterations.
C10_BoundedRetry ==
    /\ pc = "rest"
          => /\ attempt < max_attempts
             /\ requests = attempt + Uncounted
             /\ slept = BackoffSeconds * attempt
             /\ tried_without_token => ~qparams_token
    /\ pc = "after"
          => /\ attempt <= max_attempts
             /\ requests = attempt + Uncounted
                              + (IF attempt < max_attempts THEN 1 ELSE 0)
             /\ requests <= max_attempts + 1
             /\ slept = BackoffSeconds * attempt

C10_Witness ==
    /\ pc = "after" /\ requests = max_attempts + 1 /\ attempt = max_attempts
    /\ tried_without_token /\ slept = BackoffSeconds * max_attempts

\* C11: a first 498 response in the loop consumes no attempt and no sleep,
\* strips the token and leads to one more request; once the token-stripped
\* retry has been used the token stays off and every further error response,
\* a 498 included, is a counted attempt; a loop left with a non-empty ID list
\* goes on to the filtered-layer step without filing the record as failed.
C11_Step ==
    /\ (pc = "rest" /\ ~tried_without_token /\ last_err' = 498 /\ requests' > requests)
          => /\ tried_without_token' /\ ~qparams_token'
             /\ attempt' = attempt /\ slept' = slept
             /\ pc' = "rest"
    /\ (pc = "rest" /\ tried_without_token)
          => /\ tried_without_token' /\ ~qparams_token'
             /\ pc' = "rest" => attempt' = attempt + 1
             /\ pc' = "after"
                   => \/ attempt' = attempt + 1 /\ slept' = slept + BackoffSeconds
                      \/ attempt' = attempt /\ last_err' = last_err
    /\ (pc = "after" /\ object_ids # <<>>)
          => pc' = "filter" /\ failed' = failed /\ skipped' = skipped

C11_AuthRetry == [][C11_Step]_vars

C11_Witness ==
    /\ pc = "after" /\ tried_without_token /\ attempt = 0 /\ requests = 2
    /\ object_ids # <<>> /\ last_err = 498 /\ qurl_used = "notoken" /\ token

\* ----- the run-level queries
\* C12: a token-carrying request of the study-area lookup that was answered
\* with a 498 error envelope is followed by a request without the token before
\* the lookup gives up, and the reference-table query answered with a 498 is
\* not taken as the table while a token was in use.
C12_StrippedRetryEverywhere ==
    /\ (pc = "returned" /\ sent # <<>>)
          => \A k \in 1..Len(sent) :
                (sent[k].token /\ sent[k].resp = "error498")
                   => \E j \in (k + 1)..Len(sent) : ~sent[j].token
    /\ (pc = "rec" /\ token) => ref_data # "error498"

\* ----- the fallback without IDs
NoIds == "urlopen" \in ops /\ object_ids = <<>>
LastDiag == fallback_qurls_for_failed[Len(fallback_qurls_for_failed)]

\* C13: a record whose retry loop ended without IDs is filed as failed and
\* not as skipped, extracted or replaced, the newest diagnostic entry names it
\* and the last query URL used, no staging tool, delete or final copy was
\* called, no staging output exists and the final output is what it was.
C13_State ==
    (JobDone /\ NoIds)
    => /\ failed # <<>> /\ failed[Len(failed)] = last
       /\ ~InList(skipped, last)
       /\ ~InList(extracted_new, last) /\ ~InList(replaced, last)
       /\ fallback_qurls_for_failed # <<>>
       /\ LastDiag.shortname = last /\ LastDiag.qurl = qurl_used
       /\ qurl_used \in {"token", "notoken"}
       /\ ~Staged /\ "Delete" \notin ops /\ "CopyFinal" \notin ops
       /\ ~TmpLeft
       /\ gdb[last_out] = prior

\* The step that files it records the last error of the loop.
C13_Step ==
    (pc = "after" /\ object_ids = <<>>)
    => /\ fallback_qurls_for_failed'
             = Append(fallback_qurls_for_failed,
                      [shortname |-> short_name, qurl |-> qurl_used,
                       error |-> last_err])
       /\ failed' = Append(failed, short_name)
       /\ gdb' = gdb /\ tmp_fcs' = tmp_fcs

C13_NoIds == [](C13_State) /\ [][C13_Step]_vars

C13_Witness ==
    /\ JobDone /\ NoIds /\ InList(failed, last)
    /\ LastDiag.shortname = last /\ LastDiag.error = 500
    /\ prior # Absent /\ gdb[last_out] = prior

\* ----- the zero-result check
ZeroResult == "GetCount" \in ops /\ "GetCount" \notin raised /\ count = 0

\* C14: a record whose selection (primary, or the filtered layer of the
\* fallback) counted 0 features is filed as skipped and in no other list, no
\* staging tool, delete or final copy was called for it, it has no staging
\* output and its final output is what it was, whatever the flags.
C14_ZeroResult ==
    (JobDone /\ ZeroResult)
    => /\ skipped # <<>> /\ skipped[Len(skipped)] = last
       /\ ~InList(failed, last)
       /\ ~InList(extracted_new, last) /\ ~InList(replaced, last)
       /\ ~Staged /\ "Delete" \notin ops /\ "CopyFinal" \notin ops
       /\ ~TmpLeft
       /\ gdb[last_out] = prior

C14_Witness ==
    /\ JobDone /\ ZeroResult /\ where_ids # <<>> /\ selection_succeeded
    /\ Refresh /\ prior # Absent
    /\ InList(skipped, last) /\ gdb[last_out] = prior

\* ----- the filter of the fallback
\* C15: the where clause of the filtered layer exists only after an ID query
\* that returned IDs; it reads <field> IN (id1,id2,...), the field being the
\* response's objectIdFieldName or else OBJECTID, with exactly the returned
\* IDs in the returned order; the count taken on that layer is the number of
\* features of the service with one of those IDs.  IDs 101, 205 give
\* OBJECTID IN (101,205) and a count of 2.
C15_FilterCorrect ==
    /\ where_ids # <<>>
          => /\ object_ids # <<>> /\ "urlopen" \in ops
             /\ Len(where_ids) = 2 * Len(object_ids) + 2
             /\ where_ids[1] = (IF qdata = "" THEN "OBJECTID" ELSE qdata)
             /\ where_ids[2] = " IN ("
             /\ \A k \in 1..Len(object_ids) : where_ids[2 * k + 1] = object_ids[k]
             /\ \A k \in 1..(Len(object_ids) - 1) : where_ids[2 * k + 2] = ","
             /\ where_ids[Len(where_ids)] = ")"
    /\ (where_ids # <<>> /\ "GetCount" \in ops /\ "GetCount" \notin raised)
          => count = Cardinality(Set(object_ids) \cap ServiceOids)
    /\ (pc = "count" /\ object_ids = <<"101", "205">> /\ qdata = "")
          => where_ids = <<"OBJECTID", " IN (", "101", ",", "205", ")">>
    /\ (pc \in {"fd", "stage"} /\ object_ids = <<"101", "205">>) => count = 2
    /\ (pc = "count" /\ object_ids # <<>>) => where_ids # <<>> /\ selection_succeeded

C15_Witness ==
    /\ pc \in {"fd", "stage"} /\ ~made_layer
    /\ object_ids = <<"101", "205">>
    /\ where_ids = <<"OBJECTID", " IN (", "101", ",", "205", ")">>
    /\ count = 2

\* ----- run_create_site
InLog(x) == InList(log, x)
Before(x, y) == \E i, j \in 1..Len(log) : i < j /\ log[i] = x /\ log[j] = y
ReachedArchive == InLog("select_active")
\* Records of the store as the run found it whose EndDate the run has set.
SetByRun ==
    {k \in 1..Len(store0) : store0[k].EndDate = NULL /\ store[k].EndDate # NULL}

\* C16: when a run that reached the archive step has returned, the store
\* holds at most one record of the run's project with a null EndDate.
C16_AtMostOneActive ==
    (step = "returned" /\ ReachedArchive)
    => Cardinality(Active(store, project_number)) <= 1

\* C17: when a run whose append failed has returned, the result has
\* success=False and appended=False, and no record that was archived is
\* active again.
C17_AppendFailure ==
    (step = "returned" /\ InLog("append") /\ ~appended_success)
    => /\ ~result.success /\ ~result.appended
       /\ Len(store) = Len(store0)
       /\ \A k \in 1..Len(store0) :
             store[k].EndDate = NULL => store0[k].EndDate = NULL

\* C18: the EndDate update is attempted before the append, a run that
\* reached the archive step attempts the append whatever the archive step
\* did, and the archived_count returned is the number of records whose
\* EndDate the run has set.
C18_ArchiveThenAppend ==
    /\ InLog("append") => Before("select_active", "append")
    /\ (InLog("append") /\ InLog("update")) => Before("update", "append")
    /\ (step \in {"reflect", "returned"} /\ ReachedArchive) => InLog("append")
    /\ (step = "returned" /\ InLog("append"))
          => result.archived_count = Cardinality(SetByRun)

\* C19: a run that ended at the geocoding or at the buffer probe returned
\* success=False, appended=False and archived_count=0 without reaching the
\* archive or the append step and left the store as it was; the probe is run
\* only with zero parcels from CONTAINS, and nothing past the parcel selection
\* runs with zero parcels.
C19_TerminalFailures ==
    /\ (step = "returned" /\ log[Len(log)] \in {"geocode", "probe"})
          => /\ ~result.success /\ ~result.appended
             /\ result.archived_count = 0
             /\ ~ReachedArchive /\ ~InLog("update") /\ ~InLog("append")
             /\ store = store0
    /\ step = "probe" => property_count = 0 /\ log[Len(log)] = "contains"
    /\ InLog("probe") => Before("contains", "probe")
    /\ (step = "copy" /\ ~InLog("probe")) => property_count > 0
    /\ step \in {"copy", "attributes", "archive", "append", "reflect"}
          => property_count > 0
    /\ (step = "returned" /\ property_count = 0) => store = store0 /\ ~InLog("append")

C19_Witness ==
    /\ step = "returned" /\ log = <<"geocode", "contains", "probe">>
    /\ property_count = 0
    /\ Active(store0, project_number) # {}
    /\ store = store0 /\ result = DefaultResult

\* ----- the run-level preconditions
\* The study-area lookup has used up its where clauses without a feature.
LookupFailed ==
    /\ pc = "returned" /\ sent # <<>>
    /\ sent[Len(sent)].resp # "features"
NoGdb == pct_pc = "returned" /\ ~default_gdb

C20_State ==
    /\ LookupFailed
          => /\ Summary = EmptySummary
             /\ ~Summary.success
             /\ Summary.extracted = <<>> /\ Summary.replaced = <<>>
             /\ Summary.skipped = <<>> /\ Summary.failed = <<>>
             /\ ref_data = "none" /\ features = <<>>
             /\ idx = 0 /\ ops = {} /\ requests = 0
    /\ NoGdb
          => /\ results = <<>>
             /\ records = <<>> /\ pct_idx = 0 /\ pct_ops = {}

C20_Step ==
    /\ (pc \in {"idle", "study_area"} /\ pc' \in {"study_area", "returned"})
          => /\ gdb' = gdb /\ tmp_fcs' = tmp_fcs /\ fd_exists' = fd_exists
             /\ ref_data' = "none" /\ features' = <<>> /\ idx' = 0
    /\ (pct_pc = "idle" /\ pct_pc' = "returned")
          => pct_gdb' = pct_gdb /\ records' = records

\* C20: a run of run_import_std_site_layers whose study-area lookup found
\* nothing returns success=False with four empty buckets, and from its entry
\* to its return no reference-table query is made, no record is reached and
\* the geodatabase is not written; a run of run_pct_analysis without an output
\* geodatabase returns an empty list, makes no reference query, reaches no
\* record and leaves the outputs as they were.
C20_Preconditions == [](C20_State) /\ [][C20_Step]_vars

C20_Witness ==
    /\ LookupFailed /\ Len(sent) >= 2
    /\ \E k \in 1..Len(sent) : sent[k].resp = "error498"
    /\ \E p \in Paths : gdb[p] = OldContent
    /\ Summary = EmptySummary

\* ----- the order of the records
\* C21: two runs over two orderings of the same reference rows, with the
\* same flags, the same geodatabase content at the start and the same
\* answers of the services, file the same rows in each bucket and leave the
\* same final outputs.
C21_OrderIndependent ==
    order_pc = "returned" => first_run = second_run

\* ----- the buffer
\* The record is past lines 759-774.
PastBuffer ==
    pc \in {"open", "select", "fallback", "rest", "after", "filter", "count", "fd",
            "stage", "stamp", "commit", "copy"}
PctPastBuffer == pct_pc \in {"make", "select", "piece"}
NoDistance == {"0", "-5", "", "None", "abc"}

\* C22: once a record is past the buffer step, in either tool, Buffer was
\* invoked for it if and only if its SiteBuffer is a number above 0; for a
\* SiteBuffer of 0, below 0, empty, missing or not a number, Buffer was not
\* invoked and (run_pct_analysis) buffer_fc is the study area.
C22_NoBufferAtZero ==
    /\ PastBuffer
          => /\ rec.site_buffer \in NoDistance => "Buffer" \notin ops
             /\ rec.site_buffer = "50" => "Buffer" \in ops
    /\ PctPastBuffer
          => /\ pct_feat.SiteBuffer \in NoDistance
                   => <<"Buffer", "">> \notin pct_ops /\ buffer_fc = "study_area"
             /\ pct_feat.SiteBuffer = "50" => <<"Buffer", "">> \in pct_ops

C22_Witness ==
    /\ pc = "count" /\ rec.site_buffer = "abc"
    /\ "SelectLayerByLocation" \in ops /\ "Buffer" \notin ops

\* ----- the PCT report
RECURSIVE AreaOf(_, _)
AreaOf(rows, key) ==
    IF rows = <<>> THEN 0
    ELSE (IF <<rows[1].PCTID, rows[1].PCTName>> = key THEN rows[1].area ELSE 0)
         + AreaOf(Tail(rows), key)
Pairs == {<<pct_fc[k].PCTID, pct_fc[k].PCTName>> : k \in 1..Len(pct_fc)}
RowsOf(key) == {r \in report_table.rows : <<r.PCTID, r.PCTName>> = key}
ReportCreated == report_pc = "returned" /\ report_ret = "PCT_Report"

\* C23: when create_pct_report has returned the table, the table holds one
\* row for each (PCTID, PCTName) pair of the layer and no other row, and
\* the Sum_area_m of a row is the sum of the areas of the features of its
\* pair; areas 100 and 50 under (A, Foo) give the single row (A, Foo, 150).
C23_Rollup ==
    ReportCreated
    => /\ report_table.exists
       /\ \A key \in Pairs : Cardinality(RowsOf(key)) = 1
       /\ \A r \in report_table.rows :
             /\ <<r.PCTID, r.PCTName>> \in Pairs
             /\ r.Sum_area_m = AreaOf(pct_fc, <<r.PCTID, r.PCTName>>)
       /\ (/\ Len(pct_fc) = 2 /\ Pairs = {<<"A", "Foo">>}
           /\ pct_fc[1].area = 100 /\ pct_fc[2].area = 50)
             => /\ Cardinality(report_table.rows) = 1
                /\ \A r \in report_table.rows : r.Sum_area_m = 150

C23_Witness ==
    /\ ReportCreated
    /\ Len(pct_fc) = 2 /\ Pairs = {<<"A", "Foo">>}
    /\ pct_fc[1].area = 100 /\ pct_fc[2].area = 50
    /\ \E r \in report_table.rows : r.Sum_area_m = 150

\* C24: when create_pct_report has returned the table and the total area is
\* above 0, the Sum_SiteCoveragePct of every row is 100 * Sum_area_m /
\* totalAreaM2 rounded to one decimal place (in tenths of a percent).
C24_SummedCoverage ==
    (ReportCreated /\ site_area_m2 > 0)
    => \A r \in report_table.rows :
          r.Sum_SiteCoveragePct = RoundDiv(1000 * r.Sum_area_m, site_area_m2)

\* ----- the final output of a PCT record
\* The record whose pieces were processed last has been appended to results.
PctLast == results[Len(results)]
PctDone ==
    /\ pct_pc = "rec" /\ results # <<>>
    /\ PctLast.status = "done"
PctFinal == pct_gdb[records[PctLast.index].ShortName]
RowSet(fc) == {fc.rows[k] : k \in 1..Len(fc.rows)}
Selected == {selected_oids[k] : k \in 1..Len(selected_oids)}
Extracted == {selected_oids[k] : k \in {j \in 1..Len(pieces) : pieces[j] = "ok"}}

\* C25: when a record of run_pct_analysis has been processed and one of
\* its pieces failed, the final output is what it was when the record was
\* reached; and the final output of a processed record holds every selected
\* feature or is what it was.
C25_AllOrNothing ==
    PctDone
    => /\ InList(pieces, "failed") => PctFinal = pct_prior
       /\ PctFinal = pct_prior \/ Selected \subseteq RowSet(PctFinal)

\* C26: when a record of run_pct_analysis has been processed with
\* overwrite_flag=True and its final output existed, the final output holds
\* the pieces extracted in this run, once each, and no row it held before.
C26_Overwrite ==
    (PctDone /\ pct_overwrite /\ pct_prior.exists)
    => /\ RowSet(PctFinal) = Extracted
       /\ Len(PctFinal.rows) = Cardinality(Extracted)

\* ----- staging outputs
C27_State == (JobDone /\ "DeleteTmp" \notin raised) => ~TmpLeft
C27_Step ==
    (pc' = "rec" /\ idx' = idx + 1 /\ "DeleteTmp" \notin raised')
    => tmp_out \notin tmp_fcs'

\* C27: whenever a record has been filed (extracted, replaced, skipped or
\* failed) and no delete of its staging output has failed, the geodatabase
\* holds no staging output of that record.
C27_NoStagingLeft == [](C27_State) /\ [][C27_Step]_vars

C27_Witness ==
    /\ JobDone /\ "CopyFinal" \in raised /\ "DeleteTmp" \notin raised
    /\ InList(failed, last) /\ ~TmpLeft
    /\ gdb[last_out] = Partial(run, last)

\* ----- fallback trigger
PrimaryFailed ==
    "MakeFeatureLayer" \in raised \/ "SelectLayerByLocation" \in raised
IdQuerySent == "urlopen" \in ops
PrepareRaised == "FallbackPrepare" \in raised

\* C28 as stated: a filed record that reached the service has had the REST
\* ID query sent exactly when opening the layer or the selection raised.
C28_FallbackTrigger_AsStated ==
    (JobDone /\ "MakeFeatureLayer" \in ops) => (IdQuerySent <=> PrimaryFailed)

C28_State ==
    /\ IdQuerySent => PrimaryFailed
    /\ (JobDone /\ PrimaryFailed) => (IdQuerySent \/ PrepareRaised)
    /\ (JobDone /\ PrepareRaised) => (PrimaryFailed /\ InList(failed, last))
C28_Step ==
    /\ (pc \in {"open", "select"} /\ PrimaryFailed')
       => (pc' = "fallback" /\ failed' = failed)
    /\ pc' = "fallback" => (pc \in {"open", "select"} /\ PrimaryFailed')

\* C28: the REST ID query is sent for a record only if opening the service
\* layer or the spatial selection raised; when either raises the fallback
\* is entered before the record can be filed as failed, and the query is
\* sent unless the preparation of the fallback (deleting the temporary
\* layer, reading the buffer geometry) raises, in which case the record is
\* failed without a query.
C28_FallbackTrigger == [](C28_State) /\ [][C28_Step]_vars

C28_Witness ==
    /\ JobDone /\ "SelectLayerByLocation" \in raised /\ IdQuerySent
    /\ "CopyFinal" \in ops /\ InList(processed_outputs, last)

\* ----- selection predicate
\* C29: every spatial selection run_pct_analysis makes on a service layer
\* uses the INTERSECT predicate, whatever the BufferAction of the record
\* (run_import_std_site_layers passes the literal on line 790).
C29_SelectionPredicate ==
    \A o \in pct_ops : o[1] = "SelectLayerByLocation" => o[2] = "INTERSECT"

\* ----- staging action
\* The spellings that read CLIP once trimmed and upper-cased.
ClipSpellings ==
    { ClipAction, <<"c", "l", "i", "p">>, <<" ", "C", "l", "i", "p", " ">> }
StageStep == pc = "stage" /\ ops' # ops

\* C30: the staging step of run_import_std_site_layers runs Clip when the
\* BufferAction of the record, trimmed and upper-cased, is CLIP, and runs
\* CopyFeatures for every other value, a missing one included.
C30_StagingAction ==
    [][StageStep => /\ "Clip" \in ops' <=> rec.buffer_action \in ClipSpellings
                    /\ "CopyFeatures" \in ops' <=> rec.buffer_action \notin ClipSpellings]_vars

C30_Witness ==
    /\ JobDone /\ "Clip" \in ops /\ "CopyFinal" \in ops
    /\ features[last].buffer_action = <<" ", "C", "l", "i", "p", " ">>

\* ----- metadata stamping
StampFailed == "Stamp" \in raised
AfterStamp == pc \in {"commit", "copy"} \/ (JobDone /\ "Stamp" \in ops)
Stamping == IF pc = "rec" THEN last ELSE idx
C31_State ==
    (AfterStamp /\ ~StampFailed)
    => /\ Len(stamped) = count /\ count > 0
       /\ \A k \in 1..Len(stamped) :
             /\ stamped[k].ExtractURL = service_url(Stamping)
             /\ stamped[k].ExtractDate = stamped[1].ExtractDate
             /\ stamped[k] # Unstamped
C31_Step ==
    pc = "stamp"
    => /\ pc' = "commit" /\ idx' = idx
       /\ failed' = failed /\ skipped' = skipped
       /\ tmp_fcs' = tmp_fcs /\ tmp_out \in tmp_fcs'

\* C31: a failure to add or populate ExtractDate/ExtractURL files nothing
\* and leads to the commit step with the staging output unchanged in
\* place; after a successful stamping every row of the staged output
\* carries the URL of the record and the same timestamp.
C31_BestEffortStamp == [](C31_State) /\ [][C31_Step]_vars

C31_Witness ==
    /\ JobDone /\ StampFailed /\ "CopyFinal" \in ops
    /\ InList(processed_outputs, last) /\ ~InList(failed, last)
    /\ Len(stamped) = 2 /\ stamped[1] # Unstamped /\ stamped[2] = Unstamped

\* ----- two interleaved runs of run_create_site
RaceAt(p, e) == CHOOSE k \in 1..Len(race_log) : race_log[k] = <<p, e>>
RaceDid(p, e) == InList(race_log, <<p, e>>)
\* Both runs returned, same project, every call on the store succeeded.
RaceClean ==
    /\ \A p \in 1..2 : race_step[p] = "returned"
    /\ race_pn[1] = race_pn[2]
    /\ \A p \in 1..2 : RaceDid(p, "select") /\ RaceDid(p, "append")
    /\ \A p \in 1..2 : ~RaceDid(p, "update_failed")
\* Each run looked for active records before the other one appended.
Raced ==
    /\ RaceAt(1, "select") < RaceAt(2, "append")
    /\ RaceAt(2, "select") < RaceAt(1, "append")

\* C32: in every run the records are selected for archiving before the
\* run appends; and when two runs for one project have returned with every
\* call on the store served, the store holds two records of that project
\* with a null EndDate when each run selected before the other appended,
\* and one otherwise.
C32_RaceWindow ==
    /\ \A p \in 1..2 :
          (RaceDid(p, "append") /\ RaceDid(p, "select"))
          => RaceAt(p, "select") < RaceAt(p, "append")
    /\ \A p \in 1..2 :
          (RaceDid(p, "append") \/ RaceDid(p, "append_failed"))
          => (RaceDid(p, "select") \/ RaceDid(p, "select_failed"))
    /\ RaceClean
       => Cardinality(Active(race_store, race_pn[1])) = IF Raced THEN 2 ELSE 1

\* Both archive steps are complete before either append.
C32_Witness ==
    /\ RaceClean
    /\ Len(race_log) = 6
    /\ {race_log[k][2] : k \in 1..4} = {"select", "update"}
    /\ race_log[5][2] = "append" /\ race_log[6][2] = "append"
    /\ Cardinality(Active(race_store, race_pn[1])) = 2

\* ----- cleanup of run_create_site
Protected == IF result.study_area = "study_area_mem" THEN "study_area_mem" ELSE working_fc

\* C33: when run_create_site has returned from the buffer probe or from the
\* end of the function and no delete has failed, the staging artifacts of
\* the run that exist are the study area returned and nothing else.
C33_Cleanup ==
    (/\ step = "returned" /\ log # <<>> /\ log[Len(log)] \in {"probe", "reflect"}
     /\ failed_temp_deletes = {})
    => temps = IF result.success THEN {Protected} ELSE {}

\* ----- identity fields of the PCT layer
HasField(candidates) ==
    \E j \in 1..Len(pct_fields), i \in 1..Len(candidates) :
        Lower(pct_fields[j]) = Lower(candidates[i])
MissingIdentity == ~HasField(IdCandidates) \/ ~HasField(NameCandidates)
C34_State ==
    /\ report_pc \in {"summarize", "table"} => ~MissingIdentity
    /\ (report_pc = "returned" /\ MissingIdentity) => report_ret = "None"
C34_Step ==
    (report_pc # "idle" /\ MissingIdentity) => report_table' = report_table

\* C34: when the PCT layer has no field matching a PCTID candidate or none
\* matching a PCTName candidate, case ignored, create_pct_report returns
\* None, never reaches the summary or the table step, and leaves the
\* report table as it was.
C34_MissingIdentity == [](C34_State) /\ [][C34_Step]_vars

C34_Witness ==
    /\ report_pc = "returned" /\ report_ret = "None"
    /\ HasField(NameCandidates) /\ ~HasField(IdCandidates)
    /\ report_table = OldReport
    /\ Len(pct_fc) = 2 /\ \A k \in 1..2 : pct_fc[k].area_m # Unset

\* ----- duplicate layers
Removed == {l \in site_map : \A k \in site_map' : k.id # l.id}
Named(m, n) == {l \in m : l.name = n}
C35_Only ==
    map_pc = "cleanup"
    => /\ \A l \in Removed :
             /\ l.name = display_name
             /\ display_name \in preexisting_layer_names
             /\ l.id < 10 /\ l.id # final_layer.id
       /\ \A l \in site_map' \ site_map : l.visible = FALSE
C35_OneRemains ==
    (/\ map_pc = "cleanup"
     /\ display_name \in preexisting_layer_names
     /\ \A l \in site_map' : l.visible)
    => Cardinality(Named(site_map', display_name)) = 1

\* C35: _cleanup_duplicates removes only layers named like the output whose
\* name was in the map before the records were processed, never a layer
\* added in this run nor the final layer; and when the name was in the map
\* before and every removeLayer succeeded, one layer with that name remains.
C35_CleanupDuplicates == [][C35_Only /\ C35_OneRemains]_vars

\* ----- SiteLotsReport
LotsNamed == { <<"L", "o", "t", "s">>, <<"S", "i", "t", "e", "P", "L", "O", "T">> }
LotsCommitted == {k \in 1..Len(lots_outputs) : lots_outputs[k] \in LotsNamed}
Rebuilt == lots_table.exists /\ lots_table.complete /\ lots_table # lots_table0

\* C36: when the run has returned, SiteLotsReport has been deleted and
\* rebuilt exactly when an output committed in the run has 'lot' in its
\* short name, case ignored, from the first such output; with no output
\* committed the table is what it was.
C36_LotsTrigger ==
    lots_pc = "returned"
    => /\ (lots_table # lots_table0) <=> LotsCommitted # {}
       /\ LotsCommitted # {} =>
             /\ Rebuilt
             /\ lots_table.by =
                   lots_outputs[CHOOSE k \in LotsCommitted :
                                   \A j \in LotsCommitted : k <= j]
       /\ lots_outputs = <<>> => lots_table = lots_table0

\* What holds of the table whatever fails.
C36_OnlyIf ==
    /\ lots_table # lots_table0 => (lots_pc = "returned" /\ LotsCommitted # {})
    /\ (lots_table # lots_table0 /\ lots_table.exists)
       => lots_table.by =
             lots_outputs[CHOOSE k \in LotsCommitted : \A j \in LotsCommitted : k <= j]

\* ----- the summary and the final outputs
Listed == Set(Summary.extracted) \cup Set(Summary.replaced)
\* The final path of record i holds an output this run wrote whole.
HasOutput(i) ==
    \E j \in Records : gdb[features[i].out_fc] = Extract(Len(calls), j)
\* The output at the final path of record i was written for record i.
Wrote(i) == gdb[features[i].out_fc] = Extract(Len(calls), i)

\* C37: when the run has returned, every record listed in extracted or
\* replaced has a final output at its final path, and every final output
\* this run wrote belongs to a record listed in extracted or replaced.
C37_SummaryTruthful ==
    pc = "returned"
    => /\ \A i \in Listed : HasOutput(i)
       /\ \A i \in Records : Wrote(i) => i \in Listed

\* ----- the study area and the end-of-run cleanup
StudyAreaAtRoot == study_area[1] = "fc"

\* C38: when the run has returned, a study area that came in as a feature
\* class of the default geodatabase is still there, and everything the run
\* removed from the root of the geodatabase it had created.
C38_KeepsStudyArea ==
    clean_pc = "returned"
    => /\ StudyAreaAtRoot => study_area \in root
       /\ (root0 \ root) \subseteq clean_made

\* ----- one result per PCT record
InOrder(n) == Len(results) = n /\ \A k \in 1..n : results[k].index = k
PctFiled == pct_pc' = "rec" /\ pct_idx' # pct_idx
PctTroubled(e) == e.status = "error" \/ InList(e.pieces, "failed")

C39_State ==
    /\ pct_pc = "rec" => InOrder(pct_idx - 1)
    /\ pct_pc \in {"buffer", "make", "select", "piece"} => InOrder(pct_idx - 1)
    /\ (pct_pc = "returned" /\ default_gdb) => InOrder(Len(records))
C39_Step ==
    (pct_pc \in {"rec", "select", "piece"} /\ PctFiled)
    => /\ pct_idx' = pct_idx + 1
       /\ results' = Append(results, results'[Len(results')])
       /\ results'[Len(results')].index = pct_idx

\* C39: with an output geodatabase, the list run_pct_analysis returns has
\* one entry per reference record, in the order of the records; each record
\* filed, in error or with a failed piece as well, adds one entry with its
\* index and passes to the next record.
C39_OneResultPerRecord == [](C39_State) /\ [][C39_Step]_vars

C39_Witness ==
    /\ pct_pc = "returned" /\ default_gdb /\ Len(records) = 2
    /\ results[1].status = "error"
    /\ results[2].status = "done" /\ InList(results[2].pieces, "failed")
    /\ results[2].created

\* ----- the same call of run_pct_analysis twice
FirstCall == first_call[1]
TwoCalls == pct_pc = "returned" /\ first_call # <<>>
\* What the services returned to the second call is what they returned to
\* the first, and no piece and no record failed in either.
Clean(rs) ==
    \A k \in 1..Len(rs) : rs[k].status # "error" /\ ~InList(rs[k].pieces, "failed")
SameRemoteData ==
    /\ records = FirstCall.records /\ records # <<>>
    /\ Len(results) = Len(FirstCall.results)
    /\ \A k \in 1..Len(results) :
          Len(results[k].pieces) = Len(FirstCall.results[k].pieces)
    /\ Clean(results) /\ Clean(FirstCall.results)

\* C40: after two calls with force_requery=True and overwrite_flag=False
\* over the same remote data, every final output holds the rows it held
\* after the first call, each once.
C40_RequeryIdempotent ==
    (TwoCalls /\ pct_requery /\ ~pct_overwrite /\ SameRemoteData)
    => \A p \in PctPaths : pct_gdb[p] = FirstCall.gdb[p]
====
